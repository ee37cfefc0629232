# c-xrefactory in TLA+

c-xrefactory is a server that an editor keeps running beside a C project. It
parses the project's compilation units (CUs), keeps every reference of every
symbol in memory, and answers requests about the text the user is looking at:
go to the definition, list the uses, complete a name, rename, move, extract.
This directory has TLA+ models of its parts, the TLC configurations that check
them on small instances, and the theorems about them that TLAPS proves.

`PROJECT.json` maps every definition to the source lines it stands for and
lists the runs, the hazards each property is for, the disagreements that were
found and the theorems.

## The system

### Components

| Component (files of `src/src/`) | State | Operations | What makes it correct |
|---|---|---|---|
| Freshness, rebuilding, requests (`freshness.c`, `rebuild.c`, `server.c`) | knowledge time of each CU, change time of each header, the build list and include graph of one request | remove what changed, collect, strip, build, parse for the operation | what is old or missing is known to be so, and is made up for |
| Include graph (`includegraph.c`) | edges of one request | build, closure, includer closure | the walk is the closure, or says that it is not |
| Structure scan (`projectstructure.c`) | scan time and scanned includes of each file | scan when the project is opened, rescan after changes | edges that no parse has recorded yet |
| File table (`filetable.c`, `hashtab.tc`) | file items by number and name; existing, deleted, command line | add, mark deleted, revive | a number means one file as long as the server runs |
| Held buffers (`editorbuffer.c`, `editorbuffertable.c`) | preloaded and loaded texts and their times | preload, load, let go | a parse reads what the user sees |
| Snapshot (`cxfile.c`, `saveReferences()` in `cxref.c`) | the `.cx` file | save, load, merge with newer knowledge | what is read is what was written, and it claims no more than it has |
| References (`reference.c`, `referenceableitemtable.c`, `cxref.c`) | sorted reference lists by symbol | add, remove by file | no duplicates, the order that navigation relies on |
| Sessions, menus, navigation (`session.c`, `browsingmenu.c`, `navigation.c`, `match.c`, `search.c`) | three stacks of sessions, each with a menu, references and a current one | push, pop, repush, next, previous, filter, select | the current reference is one of the list; a refresh loses no place |
| Completion (`complete.c`) | candidates | collect, sort, lay out | the best fit is first, none is lost below the limit |
| Lexer (`lexer.c`, `lexem*.c`, `characterreader.c`, `encoding.c`) | character and lexem buffers | fill, refill, put back | positions follow the text over refills |
| Preprocessor (`yylex.c`, `macroargumenttable.c`, `cppexp_parser.y`) | stack of inputs, `#if` stack, macro table | read lexem, expand, include, condition | no endless expansion; the stacks balance |
| Parser and semantic actions (`c_parser.y`, `semact.c`, `symbol.c`, `type.c`) | symbol table, scopes | declare, resolve, record | every use resolves to the innermost declaration |
| Memory and tables (`memory.c`, `stackmemory.c`, `hashlist.tc`) | regions with marks, the trail, hash tables | allocate, free to a mark, undo | nothing that is freed is reachable; nothing is lost |
| Editor text (`editor.c`, `editormarker.c`, `undo.c`) | text, markers, undo list | replace, move, rename, undo | markers follow text; undo is the inverse |
| Refactorings (`refactory.c`, `move_function.c`, `organize_includes.c`, `extract.c`) | the texts and the plan | check, edit, ask again, undo | a refactoring that is refused leaves everything as it was |
| Options and startup (`options.c`, `optionsets.c`, `startup.c`, `main.c`) | options, the project, the config's time | find the config, set and reset options per request | one request's options do not reach the next |
| LSP (`lsp*.c`, `json_utils.c`) | the initialised server, open documents | open, change, close, definition | requests see the latest text |
| Output, logging, file access | none to speak of | | |
| Generated parsers, vendored byacc, editor clients | external | | |

### How they interact

One request runs to its end before the next is read; the client waits for each
answer. A request goes through *preload, scan, remove, collect, build, parse for
the operation, answer* (`callServer()` in `server.c`), all of which work on the
file table and the reference table. The answer reads the reference table
through sessions, which keep copies. Everything the server knows of the world
it learns by asking for modification times, while other programs (and the
user's own build) write files at any time, also while a request runs. Between
runs of the server only the snapshot survives.

### What is hard

The server has one thread; its concurrency is with the file system, with the
client's buffers and with its own past, that is with the order of steps over
many requests: knowledge that is older or newer than the text it came from,
partial rebuilding under a cap, saved state that is a mixture of the two,
clocks that are too coarse to order what happens. A test fixes one such order.
The hazards in `PROJECT.json` are listed at the lines where they bite.

## The models

### `IncludeGraph`

The include graph as a set of pairs, and its two closures, as least sets
closed under the edges. `Freshness` uses the closures where the code calls the
walks; `IncludeWalk` shows that the walks compute them.

### `IncludeWalk`

The two worklist walks of `includegraph.c`, one edge at a time: the array is
both the worklist and the result, the count goes on when the array is full, an
edge may be in the graph twice, and the order of a file's edges is open (they
are sorted by `qsort()`, which says nothing of equals).

### `Freshness`

A request up to its answer, with all that it reads and writes of the file
table, the reference table, the held buffers and the snapshot.

| Model | Code |
|---|---|
| `disk`, `mtime`, `moved`, `client`, `clock` | the files, their times, the client's unsaved buffers: outside the server |
| `table`, `deleted`, `know`, `change`, `letGo`, `scanTime`, `scanned` | a `FileItem`: exists, `isDeleted`, `knowledgeTime`, `changeTime`, `letGoTime`, `scanTime`, `scannedIncludes` |
| `refs` | the reference table |
| `buf` | preloaded editor buffers (text and time) |
| `loaded` | the buffers that parses of the request have loaded from disk; closed by `closeAllEditorBuffersIfClosable()` |
| `snap` | the `.cx` file: files, knowledge and change times, references |
| `graph`, `asked`, `toBuild`, `strip`, `nbuilt` | `Prerequisites` (include graph, change time cache) and `BuildList` |
| `BeginRequest` | `callServer()` to the project context: preload, `closeEditorBuffersNoLongerHeld()`, snapshot load |
| `Scan` | `scanProjectStructure()`, `rescanChangedFiles()` |
| `RemoveChanged` | `collectPrerequisites()`, `removeReferencesOfChangedFiles()` |
| `Collect` | held CUs, request CU, siblings, `stripRequestCU()` |
| `BuildCU`, `Parse`, `EndParse`, `ParseFails` | `buildKnowledgeOfAll()`, `parseFileWithFullInit()` |
| `CollectAll` | `analyseAllOutOfDateCUs()` |
| `ProcessFile`, `SinglePass` | `processFile()` and `singlePass()`, to where the request file is open and its text loaded, and to where the knowledge time is taken |
| `EndRequest` | the answer is out, and what was loaded is closed |
| `Exit`, `Crash` | `forgetKnowledgeForHeldContent()` and `saveReferences()`; a kill |

*What is abstracted.* A text is a number that every edit makes new, and the
constant `Includes` says what it includes. The references that one parse of a
CU puts in one file are one element of `refs`, a *part*: the file, the CU, the
texts it was read from (`saw`: its own, and those of the files it includes,
since a reference in a header depends on the headers below it and not on
its includer), those of them that an earlier parse of the request had loaded (`earlier`), the knowledge time of the parse (`at`) and whether the removal
pass had met all of its headers before (`dated`). `saw`, `earlier`, `at` and `dated` are
what the properties look at; no action of the server reads them, except that a
part that is already there in the same form is not added again
(`addToReferenceList()`), and that a file is an includer in the graph as long as
an include reference of it is in the table.

The kinds of request are five: `push` parses the request file, `menu` answers
from a session, `search` needs the whole project, `unused` does both, `query`
needs no references.

A text is loaded once in a request: what one parse has read, the next ones read again from the buffer, with the time the file had then
(`Reads`, `ModificationTime`). `Exists` and `Openable` differ for a file that is gone while its buffer is still loaded.

*What the environment may do.* Other programs write, remove and move back files
in the phases `EditPhases`. A modification time may lag the clock by up to
`MaxLag`, less than the gap the code allows for (`COARSE_CLOCK_GAP_IN_NANOSECONDS`,
assumption `ClockAssumption`). `FreshStamp` says that no two stamps are the same
tick: a second edit within one tick of the file system's clock is beyond what a
modification time can show, and ADR-0032 accepts it. A user takes `Pace` to do
something, longer than the gap in the runs. The client never changes its buffers
while it waits for an answer.

*What is left out of it.* A changed config (`clearAllKnowledge()`), the extra
parses that expand a macro for a request within its body, the cut of a closure at 1000 or
256 files (`IncludeWalk` has it), how an include path is resolved (`Quoted`), and
what the operation does with the references (`Browsing`).

### `Browsing`

The browsing stack and what the answers do to it. A session is a record; the
stack is a sequence, of which what lies above `top` was popped and can be
pushed again.

| Model | Code |
|---|---|
| `stack`, `top` | `browsingStack.root` and `.top`, linked by `previous` |
| `copy`, `default`, `selected`, `shown` | the session's menu: the references, `defaultPosition` and `defaultUsage`, `selected` and `visible` of each of its items |
| `list`, `sorted`, `current`, `caller`, `limit`, `level` | `references` and the order they were last sorted in, `current`, `callerPosition`, the two filter levels |
| `text`, `edits`, `parsed`, `changed`, `old` | what `Freshness` has in detail: texts, what the table has of each file, headers changed since the last removal, CUs out of date |
| `marked` | `needsBrowsingStackRefresh` |
| `Ask` | `callServer()` up to the answer |
| `Push`, `PushNothing`, `Complete` | the operations that parse the request file |
| `Navigate` | `gotoNextReference()`, `gotoPreviousReference()`, with the refresh for the request file and for the file of the target |
| `Pop`, `RePush`, `GotoNth`, `Filter`, `Menu`, `GotoMatch` | `popReference()`, `rePush()`, `gotoReferenceWithIndex()`, `setFilter()`, the five menu operations, `gotoMatch()` |

*What is abstracted.* A list is a set and the order it is sorted in; a
reference is a file, a line and a usage; the list of several selected items is made in the order of the menu (`MenuOrder`),
with one reference to a place, that of the first item that has one there (`InOneList`); which items a push lists,
which of them the menu shows at a level and which it selects are constants, so how well
a symbol matches is left out. A definition at the default position of its item becomes the best fit (`Copied`,
`UsageOLBestFitDefined`), which comes before all others. An item has its default from the cursor (`DefaultsAt`), or from the first of the most
important definitions that were added to it (`NewDefault`, in the order `AddedAt` of the table). `Ask` is one step and takes the outcomes that `Freshness` allows: all
changed headers lose their references, the held CUs and the request CU are
built, and any of its siblings. A push by name, before which the whole project is parsed, is
left out. It has headers that CUs include directly, a
server that has parsed everything, and no references lost in the includers of a changed
header; those are in `Freshness`.

### `EditorText`

The texts that refactorings edit. A refactoring edits the server's own buffers,
and each edit is noted for undo. `applyWholeRefactoringFromUndo()` then undoes all of
them silently and does them again, from the records that the undoing has noted, with output
that the client applies to its files. So the client's files are right only if
every record takes back exactly what it was noted for, twice.

| Model | Code |
|---|---|
| `editor.buffers`, `.table`, `.markers` | `EditorBuffer`s, the editor buffer table, the markers of all buffers |
| `editorUndo`, `redoTrack` | the two lists of `EditorUndo` records, the head first |
| `phase` | before, in and after the two calls of `editorUndoUntil()` |
| `client` | the client's files: outside the server |
| `Replaced`, `Moved`, `Renamed` | `replaceStringInEditorBuffer()`, `moveBlockInEditorBuffer()`, `renameEditorBuffer()` |
| `UndoOfReplace`, `UndoOfMove`, `UndoOfRename` | the record that each of them makes |
| `Applied`, `UndoOf` | one round of `editorApplyUndos()` |
| `ClientApplied`, `ClientMoved` | what `c-xref.el` does with the output of one round |
| `Replace`, `MoveBlock`, `RenameFile`, `CreateHeader` | one edit of a refactoring |

*What is abstracted.* A text is a sequence of characters and an absent file has the
empty text, as for the client, which empties a file that it moves. Room for a text
(the gap before and after it, growing), times and file numbers are left out. A buffer that is freed
stays in the sequence, not open, so that a pointer to it can be seen. Which edits
a refactoring makes is open: any sequence of them, in any open buffer. Edits that change nothing are not made.

*What the environment may do.* `FreeName`: a file is renamed to a name where there is
nothing, or an edit that another record needs would be overwritten (a hazard in
`PROJECT.json`). `Editable`: no refactoring edits, under its old name, a file
that it has renamed. A block is never empty, and never moved into itself, which
`moveBlockInEditorBuffer()` refuses (`IntoItself`).

### `Scopes` and `Symbols`

What the parser declares and what becomes of it. `Scopes` is the promise: a stack of
scopes, of which closing one takes back exactly what was declared in it, and macros that
a newer one of the same name masks. `Symbols` is the program: one table of pointers into two memories, undo
frames that live in one of them, blocks that are a free index, and two checkpoints. `Promise` is `Scopes` with
the scopes computed from these: block *d* has what was allocated between the free index it began with
and that of the next.

| Model | Code |
|---|---|
| `stack`, `ppm` | `stackMemory`, `ppmMemory`: the cells allocated, so the length is the first free index |
| `frames`, `isFileScope`, `outer` | `currentBlock` and its outer blocks |
| `table` | `symbolTable`: all its chains as one list, newest first |
| `clean`, `project` | `cleanCheckpoint`, `projectCheckpoint` |
| `constructs`, `parsing` | what the grammar has begun, and the operation the file is parsed for |
| `Declare`, `BeginFunction`, `EndFunction`, `BeginCompound`, `EndCompound` | `addNewSymbolDefinition()`, the function head and `handleDeclaratorParamDeclarations()`, `beginBlock()`, `endBlock()` |
| `BeginLoop`, `EndLoop` | `addContinueBreakLabelSymbol()`, `deleteContinueBreakLabelSymbol()`, when a file is parsed to extract |
| `UseTag`, `BeginTag`, `EndTag`, `EndEmptyTag` | `simpleStructOrUnionSpecifier()`, `specializeStructOrUnionDef()` |
| `Define`, `Undefine` | `processDefineDirective()`, `processUndefineDirective()` |
| `StopParsing`, `NextFile`, `NextProject` | the parser returns, anywhere; `initializeFileProcessing()`, which restores the checkpoint of the project or makes a new one |

*What is abstracted.* A cell is one symbol whatever its size. Only what has a type, a name, a member list
and a lifetime is kept of a symbol: no types, no usages. A tag has one kind and one list of members; enumerations,
typedefs and member references are left out. `n1` stands for every name: one name is enough for
shadowing, and two of different hash are in chains that do not meet.

### `ExtractFlow`

Extract Function. The parser leaves the references of the function, in the order of the
text and with labels and jumps among them, and `extract.c` follows the value of a variable through them to
tell how the new function gets it and gives it back. The module has the text, chosen one token at a time, what the
parser leaves of it, and the analysis. What C says of the same text (`Succ`, `Needs`) is
what the analysis is compared with.

| Model | Code |
|---|---|
| `nodes` | the references of the function in `cxMemory`, which become `ProgramGraphNode`s |
| `breakLabels` | the symbols `" %cntl%"` of the symbol table |
| `localSym` | `counters.localSym` |
| `source`, `open`, `storage`, `scope`, `spent` | the text and what the grammar has begun in it: the input |
| `BeginIf` ... `EndRegion` | the actions of the statements in `c_parser.y`, `addContinueBreakLabelSymbol()`, the block markers |
| `Extract`, `Analyzed`, `Classified`, `Reclassified` | `makeExtraction()`, `analyzeVariableDataFlow()`, `classifyVariableUsingDataFlow()`, `reclassifyInOutVariables()` |

*What is abstracted.* One variable, at most one region of whole statements, and no text
after a jump. The function's text and the generated one are left out: that a
variable is copied in or out is what its class says. A class is compared with what *some* execution needs, taking
every branch as possible.

### `MacroExpansion` and `MacrosInC`

How `yylex()` gives the parser the lexems of a file with the macros expanded: the three
functions that call each other, all of which read on from the same stack of streams, so a function may be
given a lexem of a stream that another has begun. `MacrosInC` is the algorithm with hide sets from
which C's wording was made.

| Model | Code |
|---|---|
| `streams` | `macroInputStack` and `currentInput` (the last) |
| `calls` | the C stack: each `expandMacroCall()` and `expandMacroArgument()` in progress, with the arguments it has so far |
| `output` | what `yylex()` has returned |
| `status` | `reading`, `done`, or one of the fatal errors and assertions |
| `Reads` | `getLexemFromLexemStream()`: what can be read, and from what stream |
| `LeaveBody` | `refillInputIfEmpty()` at the end of a body |
| `TakeLexem`, `TakeCyclic` | a lexem that is no macro, or one that may not be expanded: `IDENT_NO_CPP_EXPAND` |
| `ExpandObject`, `BeginCall`, `LeftParenthesis`, `NoCall`, `CollectLexem`, `NextArgument`, `EndCall`, `CallInterrupted` | `expandMacroCall()` with `getActualMacroArguments()`, one lexem at a time |
| `EndArgument` | `expandMacroArgument()` at the end of its stream |
| `BodyOf`, `Collate` | `createMacroBodyAsNewStream()`, `collate()` |

*What is abstracted.* Texts are members of a small set and `Pasted` says what `##` makes of two. The text of
the file and each body are chosen where they are first needed, so one run has all of them. Left out
are lines and directives within a call, `#`, macros with an empty parameter list (the array of the actual arguments has no
element then, and gets one stored in it) or a variable one, the references that an expansion records, and memory that runs out.
`torn` notes that a body came to its end within the arguments of a call, where the program and C
go by different things to tell whether a name is the macro's own. `kept` notes that a `##` has made a macro's name of a number and
a name that is not to be replaced again: `collate_id_const()` leaves such a lexem an `IDENT_NO_CPP_EXPAND`, and C replaces it.

### `SnapshotFile` and `KnownReferences`

What lies between two servers: the file table, whose slots are the numbers of files, the references by those numbers, and
the file that `cxfile.c` writes of them and reads back into another table. `KnownReferences` is the promise, by
names: what was saved is what the next server has, and of a save that was cut short a part. `Freshness` takes
a snapshot for what `KnownReferences` calls a whole one.

| Model | Code |
|---|---|
| `table`, `count` | `fileTable.tab`, `fileTable.numberOfElements` |
| `deleted`, `know` | `isDeleted`, `knowledgeTime` of the items |
| `refs` | the reference table, with file numbers |
| `cxFile` | the `.cx` file, a sequence of records |
| `scan` | `lastIncomingData` and `fileNumberMapping` |
| `Position`, `Overflows` | the search of `hashtab.tc` and its limit |
| `AddFileName`, `RemoveFile`, `BeginParse`, `AddReference` | `addFileNameToFileTable()`, `markFileAsDeleted()`, `buildKnowledgeOfCU()`, `addToReferenceList()` |
| `Save`, `CrashInSave`; `WriteFile`, `WriteItem`, `WriteReference` | `saveReferencesToStore()`; `writeFileNumberItem()`, `writeSymbolItem()`, `writeCxReferenceBase()` |
| `WriteFiles`, `WriteItems`, `WriteReferences`; `FilesInOrder`, `ListsOf` | the loops over the file table, the referenceable items and an item's list; their order |
| `LoadSnapshot`, `ScanVersion` ... `EndScan` | `loadSnapshotFromStore()`, `scanCxFileUsing()` and the functions of its dispatch table, one record per step |
| `saved` | history: what the server had when it saved, by name |

*What is abstracted.* A record is a tag and a number or name. A line stands for line and column, the knowledge time for
all times of a file and their nanoseconds, a type for type and storage: they are coded the same way. Records whose value is always 0
are left out. The order of the items is that of their hash values, which may be any. A save is cut between two records.
The duplicates that some parses allow in reference lists are of operations that do not save.

## The runs

The runs of `Freshness`, `Browsing` and `EditorText` check deadlock: a server that has answered can be asked
again. The others do not: a walk returns (`IncludeWalk`), a memory of the model is full or nothing more may be
begun (`Symbols`), all saves have been made (`SnapshotFile`), a text comes to its end (`ExtractFlow`, `MacroExpansion`).

| Run | Question | Bounds and why they are enough |
|---|---|---|
| `MCFreshnessDisk` | files change between requests, a CU disappears, one CU is built per request; exit or crash at any point | c1 includes h1, which includes h2, and c2 includes h2, or h1 after an odd edit: an own header, a shared one, a header in between, and edges that come and go. Two edits, gap 2 and lag 1, so that a stamp can look older than it is. One restart, after a save at any CU (`SaveEvery = 1`): the second server has the first one's snapshot and nothing else |
| `MCFreshnessHeld` | the client holds, changes, saves and reverts a CU and a header | two unsaved texts: enough to replace one text by another and let both go |
| `MCFreshnessMid` | files also change, disappear and come back in the middle of a request: between the load of the request file, the knowledge time, the read and the answer | one edit and one removed header, at every point of a parse; two CUs built and the request file parsed in one request, so that a text that one of them has loaded is read by the next after the edit |
| `MCFreshnessBuild` | repeated requests under the cap | three CUs, cap 1, one edit |
| `MCFreshnessMidMissing` | the disagreement below | as `MCFreshnessMid` |
| `MCBrowsing` | everything that can be done with one session | two CUs and a header, a function and a macro of one name, so that a menu has something to choose and a merge by name something to confuse; uses, definitions and the best fit, two filters, two menu levels. The function has two definitions, so a push or a refresh chooses one of them for the best fit; the macro is used where it is not defined, so that its default comes from the cursor. One edit, of any file, which moves its lines. One session on the stack and one more while a match is gone to; that the place of every session is in its list is proved for any number |
| `MCEditorText` | edits of every kind, undone and done again, with the client following | two edits: a record is then undone over another one's result, in every pair of kinds, and the second edit can overlap the first or be made in the client's new state. Files of three and of one character (a block has a character before it, in it and after it, and a text can become empty), one free name, one marker at any place |
| `MCIncludeWalk` | both walks | every subset of six edges with cycles, a self-include, once or doubled; arrays of 1, 2 and 4 |
| `MCSymbols` | every order of declarations, blocks, loops, tags and macros, the parse stopping anywhere, and files of the same or of another project after it | one name; five cells beside the spare one and two macros: a function with a parameter and a tag that is completed in a block take four; four open constructs; files are parsed to extract, which does all that another parse does and the labels |
| `MCExtractFlow` | every text of a cost of at most five, with every region of it | a `while` with an `if` that leaves it and two uses of the variable; a construct that costs more comes in smaller texts (`MCCost`). Values that arrive over two passes of a loop need no more |
| `MCMacroExpansion` | every text and every choice of bodies of together six lexems, and longer ones made to paste | a macro of one and one of two parameters and one without; bodies of up to three lexems and with a `##`: a call in an argument in a call, a call that begins in a body and ends behind it, two macros that have each other. In six lexems the only macro that `##` makes is the one whose body it is in, so the run has a second family (`MCWithin`): four texts and all choices of the bodies in `Chained`, in which `##` makes the names of two other macros, of arguments, of what calls give on, and of names that are not to be replaced again. A stack of seven, so that only endless expansion could fill it |
| `MCSnapshotFile` | every table and reference a server can have, saved or cut short anywhere, read by a server that has met files of its own | four slots, of which three may be taken, one by `NO_FILE`; a CU and its header whose hash leads to that slot and a file whose hash does not: numbers that depend on the order, that are swapped in the next server, and a table that overflows in one server and not in the other. Two references, of which the second leaves out what it shares with the first; two knowledge times; one save, since what is loaded is a table like any other |

The clock is bounded by `MaxTime`; when it has run out only requests go on, so
requests without further changes are always part of the behaviours. Two edits
of two files, in both orders, are what every order of *older, newer, in
between* needs; a third adds states and no case.

### The properties

- `MissingIsKnown`: at the answer, a CU that is not out of date has every part it
  would put in the table. ADR-0035's "let missing references be known". It relates the
  reference table, the knowledge times and the edges, over all requests so far.
- `StaleIsKnown`: at the answer, such a CU has no part of its own file that was read from a text
  that is not what the user has.
- `OwnTextIsKnown`: the same for files that change during a parse: what such a CU was
  parsed from is what a parse would read, as far as the scan sees the includes. It leaves out the texts that the request had loaded
  before the knowledge time was taken (`earlier`), of which the code does not know that they changed (see *Knowledge* below for both).
- `ChangesShow`: a text that is no longer the one of a part is newer than the part, but for the same texts.
- `NoDatedGhostsAfterRemoval`: the removal pass leaves no part of an old text in a header it has met.
- `PartialWorkAddsUp` (liveness): the cap delays work and loses none.
- `StoredIsReached`, `CutIsSeen`: the walk is the closure or says that it is not.
- `CurrentIsListed`: no session is left with a current reference that a rebuilt list no
  longer has (in C: that has been freed).
- `ListIsSelected`: what is walked is what the menu shows as selected. It excepts a menu in
  which nothing is selected: `menuSelectOnly()` on a line without an item clears
  the selections and leaves the list.
- `RoundTrip`: NEXT visits every reference that the filter lets through, and PREVIOUS
  takes each step back.
- `RefreshKeepsPlace`: when no refresh would change the list of a session or the default of one of its items, marks make no difference to
  where NEXT and PREVIOUS go, whatever file a request that may be one of them names. That the files are unchanged is not enough (*Sessions* below).
- `UnmarkedIsRefreshed`: a mark is taken off only when the session moved in has
  all the table has of the file, and nothing older, whichever definition is the best fit.
- `ClientFollows`: when nothing is left to undo, and at every point of the replay, the client
  has the texts that the server has. It relates the texts of two programs over all records of both lists.
- `ReplayRepeats`: after the replay the texts are those that were edited. Texts only: a
  marker whose character was deleted may come back at another place.
- `MarkersStick`: a marker on a character stays on it as long as the character is anywhere, also
  when it goes to another file and back.
- `MarkersInText`: a marker is in its text, the end included.
- `BuffersAreRight`: the table has exactly the open buffers, and a buffer that counts as
  unmodified, which the server closes without asking, has the text of its file.
- `RecordsAreLive`: no record points at a buffer that was freed.
- `SessionsSurvive`: a session is lost only to a push, and only if it was popped.
- `KeepsScopes` (refinement): the table, the frames and the checkpoints do what `Scopes` says: the end of a block
  takes back exactly its own symbols (and completes no tag of an outer one), and a file starts with what its project defines
  and nothing else, wherever the last parse stopped.
- `NothingDangles`: no chain, member list, frame or open construct has a pointer to memory that was freed.
- `InnermostFirst`: the newest symbol of the table, which is what a lookup finds, is the innermost.
- `ValuesArrive`: after an extraction every use of the variable sees the value it saw before.
- `NothingMore`: nothing is passed to the new function or given back by it without need.
- `JumpsStay`: a region that is extracted is entered at its beginning and left at its end only.
- `ExpandsAsC`: what the parser gets of a text is what C has in its place, when the text is C at all and neither `torn` nor `kept`. The names of macros that `##` makes are
  among it: `MCMacroExpansion` finds it violated if every pasted lexem is taken for one that is not replaced, or none.
- `NeverInItself`: no macro is replaced within its own replacement, not in an argument of a call in it either: the stack
  never has two bodies of one macro.
- `ExpansionEnds`: the stack of streams is never full, which in C is an assertion, except after a call that is `torn`.
- `CallsNest`: the calls on the C stack and the streams they read belong together, in order: an argument that
  is being expanded is the argument of the innermost call that expands one.

- `KeepsReferences` (refinement): references, include references and knowledge times come back to the files they were of, under
  whatever numbers, and nothing else comes back; what was deleted, local or replaced does not.
- `LookupsAreRight`: every search in the file table ends, and a file stays at its one number however the table fills.

*Fairness* is assumed in `MCFreshnessBuild` only. Weak fairness of `Server`:
the server's loop has no waiting in it, so a request that has begun goes on.
Strong fairness of each `BeginRequest`: the user asks about the file again and
again; it is strong because requests about other files come in between. That
is the premise of "partial work adds up" in ADR-0035. Nothing is assumed of the
user or of other programs, which may stop for ever.

### Disagreements

One run ends in a violation, of a statement in ADR-0035. `MCFreshnessMidMissing`: a header is edited after the
removal pass of a request and before a parse in it. The parse reads the new text, the header's change time stays
old, and the next request removes the references the CU has just put there while the CU's
knowledge time is later than the edit: they are missing and nothing knows.

Others were met while the models were written. The runs keep out of them by constants or by the premise of a property,
and most have a hazard in `PROJECT.json`.

*Knowledge.* A text that was loaded earlier in the request is read again under a later knowledge time. The build of a sibling loads h2, h2 is edited, c1 is then
parsed from the old h2, and the next request holds c1 to be current; the same goes for the request file, which is loaded (`startup.c:59`) before its knowledge time
is taken (`server.c:196`). The comments at `rebuild.c:372` and `server.c:195` and ADR-0035 (*Risks*, *Seeing a change*) say that an edit during a parse makes the knowledge out of date.
`OwnTextIsKnown` and `ChangesShow` are violated in `MCFreshnessMid` if `r.earlier` is not left out. At exit the knowledge of a held *header* is forgotten, which no CU is judged by; the CUs built from
its unsaved text are saved as current. The request CU is stripped before the builds, and a
save in the middle of them writes its knowledge time without its references; after a crash it
counts as current if the header that changed is one the scan does not see. A header that disappears
keeps its references and those of its includers (a test of it is suspended). A
CU that is moved away and moved back keeps a knowledge time without its
references (`Returnable` has no CU). A header that the removal pass meets for
the first time keeps what the table has (`dated`). A header let go within the clock gap
of its buffer's time looks unchanged (`Pace` is longer than the gap). The request CU may change between the
collection and the operation's own parse (`EditPhases` has no `build` where `StaleIsKnown` is
checked). A removed CU whose scanned includes survive takes a place on the build
list of every request (no CU is removed in `MCFreshnessBuild`). A header that is edited after the removal pass loses its references in the
next request, and with them the edges they were: where the scan does not see its includes either (`<...>`), a later change of what it includes
goes unnoticed, and `OwnTextIsKnown` is violated with `Quoted = {}` and two edits. `MCFreshnessMid` has the includes that the scan sees.

*Sessions.* A refresh of a session for one file merges the references of *every* file from the table: if a header and the
request CU have both changed, the header's new references come in beside its old ones until a refresh
for the header as well. And a refresh of a file that has not changed can reorder a list: an item's default is set by the first definition that is copied,
after that definition's usage was looked at, so it becomes the best fit only when it is copied again (`browsingmenu.c:69-74`). With two
definitions it then comes before the other one, and NEXT from there skips a definition. `RefreshKeepsPlace` leaves such sessions out.

*Extraction.* The references that `c_parser.y` leaves for a `for` have the fork behind the step (`:1431`), so the way past the
body is missing; `case` and `default` look for a symbol that is never added, `continue` goes where
`break` goes, and `&&`, `||` and `?:` leave no fork at all. `ValuesArrive` and `NothingMore` are about texts without
these (`Understood`). A region between blocks of different depth is not recognised as such (`extract.c:960`), and the members of a
structure are not followed.

*The snapshot.* A save removes the old file and writes the new one in its place, so a crash leaves a beginning of it, with the
knowledge times of all files and a part of the references, and a CU whose references are missing counts as current.
A header that was deleted while a CU still has an include reference to it (which is what happens when a refactoring's new
header is undone) is saved as a number without a name. The reader takes it for file 0: `getFileItemWithFileNumber()` asserts that there is one,
in every start until the snapshot is removed, and where there is one the reference is taken for one to that file. In `MCSnapshotFile` headers do not
disappear (`Removable`); if they do, `KeepsReferences` is violated.

*Macros.* With `#define CAT(x,y) x##y`, `#define H(x) CAT(x,1)`, `#define F H(F)` and `#define F1 ok` the text `F` gives `F1`, in C `ok`: the `F` of the body is not to
be replaced, and `collate_id_const()` (`yylex.c:1952`) makes `F1` of it without making it a lexem that is (`kept`). `#define f g(f` with `#define g(x) x` and the text `f)` expands for ever, up to the assertion at
`yylex.c:1743`; it is the call that is `torn`. An argument that ends where a call's arguments should begin is an assertion in
`getActualMacroArguments()` (`CallInterrupted`). Not in the model: the newline that is read in search of a
parenthesis is lost when a directive follows; `#x` is given the expanded argument. In the model, but not in the bodies of
`MCMacroExpansion`: `a##x##b` loses lexems when `x` has several.

## The theorems

TLAPS proves them for every value of the constants that satisfies the
assumptions that the modules name: `FilesAssumption`, `ClockAssumption`, `WalkAssumption`,
`BrowsingAssumption`, `PlaceAssumption`, `RequestAssumption`, `EditorAssumption`, `SymbolsAssumption`,
`CostAssumption`, `TableAssumption` and `MacrosAssumption`, and `FiniteAssumption`, that lists are finite: any project, any clock gap, any cap,
any bound, any macros. All but `PlaceAssumption` give the constants their types, keep values apart that stand for nothing,
state that a memory has a cell, that what ends a construct costs nothing, and that a macro is called with parentheses only if it has a parameter. `PlaceAssumption` says what the model's references are: of what may come into one list there is one
reference to a place, as `addReferenceToListWithoutUsageCheck()` has it.

- `TypeCorrect` (`Freshness_proofs`): `Spec => []TypeOK`. `TypeOK` is inductive.
  Its one part that is not a typing is that a parse in progress has a file, and
  the one that takes work is that a part of the reference table has seen only
  texts that existed (`ReachedFilesExist`): a closure leads only to files that are there.
- `ChangesAlwaysShow`: `Spec => []ChangesShow`. Not inductive alone: references
  also wait in the snapshot, and a file that was moved away can come back with an
  old time. `ChangesInv` says that no knowledge time is later than the clock, that a
  file the client never holds has no buffer of the client's, that between requests nothing is loaded (`BuffersInv`), and that what holds of the table also
  holds of the snapshot, of the file as it was before it was moved and of a buffer that is loaded. The step that matters is
  `DiskEdit`: the new stamp lags the clock by less than the gap, and every part is at most as late as the
  clock, so `changedAfter()` sees it. It is the argument ADR-0032 gives for the gap. A text that was
  loaded before the knowledge time is left out (`Watched`), unless files change between requests only, as the theorems below need it.
- `NoGhostSurvives`, `StaleIsAlwaysKnown`, `MissingIsAlwaysKnown`, `OwnTextIsAlwaysKnown` (`Freshness_proofs`): the promises that the answer to
  a request rests on, for files that change only on disk and between requests (`DiskOnly`). Texts are loaded there as everywhere, but have not
  changed when they are read again. Any project, any clock gap, requests of every kind, any
  caps, any number of edits, and CUs that are removed at any time; the first two also for any number of exits and crashes, each with a
  snapshot saved at any point. `DiskOnly` is the premise of `MCFreshnessDisk`. It leaves out what *Knowledge* above lists as breaking the
  promises (a file that changes in the middle of a request, a header that disappears, a CU that comes back), and unsaved
  text, which breaks them only together with an exit and is otherwise checked by `MCFreshnessHeld`. The last two also
  have `NothingCutShort`, that the server does not stop or that no operation parses the request file: a crash between the
  stripping of the request CU and its parse leaves a knowledge time without references (*Knowledge*), and that this is harmless
  when the scan sees all includes is what `MCFreshnessDisk` checks beyond the theorem.

  The invariant is `FreshInv`, and `KeptInv` for the last two; both were model-checked first. Their heart is one
  predicate, `Tables`, about a reference table with its times, which is asked of the memory and of the snapshot alike, so that a restart is
  only the one taking the place of the other. It says that the parts of one CU hang together: each was read from exactly what it reaches
  (`Shaped`), and each include of a part leads to a part of the same CU that has read the same texts, or else it is an include in the CU's own file
  of a header whose change time is after the CU's knowledge time (`Joined`). `CurrentHasAll` follows: a CU that is judged current has
  read the texts of now and has a part in every header, by going along the includes from its own file (`PartsBelow`). `Later` and `Met`
  are about edits that the removal pass has still to find: they are after every knowledge time that they may concern, whatever the lag of
  the stamp, and no change time is later than the last edit, so the next scan sees them. The removal pass is right as the graph has the
  includes of *every* part in the table: who has seen an old text of a header is among its includers and loses the part. Since a request
  removes parts before it judges CUs, `RequestInv` says for each phase what has been removed, and that a current file that is
  parsed once more gives the references that it has (`ReadAgain`).

- `WalkTypes`, `NothingElseIsStored`, `WalkIsRight` (`IncludeWalk_proofs`): the walk stays in its array; it
  finds nothing that is not reached and nothing twice; at the end it has the closure, or
  its count exceeds the array and something is missing. The invariant `WalkInv` says that every
  edge already looked at leads to a stored file unless the array was full, in
  which case some reached file is not stored and never will be.

- `TypeCorrect`, `PlaceIsKept` (`Browsing_proofs`): `TypeOK` and `CurrentIsListed`
  together are `Inv`, which is inductive: every session on the stack is `Sound`
  (it has its type and its place is in its list), and each operation on a session, down to the two
  nested refreshes of `Goto`, is shown to keep that, by one lemma for each. What a lemma
  needs of the order is only that the first or last of a set is in it, so the result holds for
  any order, ties included.
- `ListFollowsMenu`, `StackSurvives`, `UnmarkedIsFresh`, `MarksDoNotMatter`: `StackChanges` says once what a step can do to the stack (leave it, drop what was popped, append a session, put
  an outcome of an operation in the place of the top), so that `SessionWise` reduces what is true of each session to the
  operations on one. `GotoKeeps` follows the copies through two refreshes: the second, for the target's file, keeps of the request's
  file what the first one made. What a copy has of a file is compared with the table up to the best fit (`AsTable`, `RecordedAgain`).
  `MarksDoNotMatter` is the same way gone with the list. A session that no refresh would change is `Settled`: the place of its
  current reference is that of no other (`NearestIsSame`), and NEXT and PREVIOUS look at the list and the place only (`SameMove`). What takes work is that the session is still settled
  after the first refresh, which has made other copies: a default that stays has nothing better beside it (`NoneIsBetter`), then the place alone decides
  which definition is the best fit (`PlaceDecides`), and so the second refresh copies what it would have copied before the first one (`CopiedTwice`).
- `NothingIsPassedOver`: `RoundTrip`, and so all the run checks. That NEXT leaves no reference out rests on the order being total, which it is
  only where no two references of a list stand at one place, however they are ordered: importance puts definitions first and the rest by place. So
  the invariant is that every session is *tidy*: its copies and its list are finite and have one reference to a place, which each operation that makes
  a copy or a list keeps, as the table has it so (`PlaceAssumption`) and `New` lets nothing in beside what is there; being taken for the best fit moves nothing (`CopiedTidy`). Then each reference that the
  filter lets through has a rank, the number of those before it: NEXT raises the rank by one and goes from the last to the
  first (`WentRank`), PREVIOUS takes it down again, and as many steps as there are references meet every rank (`AllTheWay`).

- `EditIsUndone`, `ClientKeepsUp`, `MarkersStayIn` (`EditorText_proofs`): one round of
  `editorApplyUndos()`, for all texts, offsets, sizes and names. In any
  editor whose table is right (`Listed`) and for any record that an edit of it can be made from (`Fits`), the
  round gives such an editor again, in which the record it notes can be applied *exactly*, with no deletion
  beyond the end, and applying it gives back all texts; the client's texts follow the server's; and no marker leaves
  its text. The argument is about sequences, index by index: what a replacement is (`CutProperties`), that
  putting back what was deleted undoes it (`CutIsUndone`), and that two replacements of parts that do not overlap
  can be done in any order (`CutsCommute`). A move within a text is two such replacements, and
  `MovedInOneText` shows that the offsets in its record are those of the moment when it is undone.

- `EditorTyped`, `TableIsRight`, `NoRecordDangles`, `ClientIsFollowed`, `EditsAreRepeated`, `MarkersAreInside`
  (`EditorText_proofs`, its second part): `Spec => []` of every property of the editor but `MarkersStick`, for any number of edits, undone, done again
  and followed by others. What the three theorems before do for one round and a record that fits has to be joined: the records of
  `editorUndo` were made in editors that are no more. The invariant says that there is a *trail* of editors, one for each
  record, in which each record fits and takes its editor to the next one, the last being the client's; another one for
  `redoTrack` leads to `edited`. Two editors on a trail need not be equal, only `Alike`: the same files, and the same names for
  the buffers that later records are about. `NamesLeft` and `Named` say why renames come back in order: the name that a rename is
  undone to is held by no buffer that an earlier edit was about. `AsOpened` ties a buffer that counts as unmodified to the text it was
  opened with. The invariant was model-checked first, with trails that were computed from the two lists.

- `SymbolsTyped`, `NothingIsLeftDangling`, `InnermostIsFirst` (`Symbols_proofs`): `Spec => []` of the three invariants of the
  symbol table, for any memory, any names and any nesting. The inductive invariant is in a module of its own, `SymbolsInvariant`: `Core` says that table and frames descend in `stackMemory`, that
  blocks nest with both, and that what was made before a block begins stays below its free index: its tags' members,
  and the labels of the loops around it. `Owned` says that everything but the keyword is taken out again by a frame or at the
  end of a loop. That is what makes the end of a block right: after `Unwind` the table has nothing above the
  free index that is about to be reused. `Levels` is what `InnermostFirst` needs beside it: to each symbol of the table a depth that does not
  increase along it. `Unwind` and `Recovered` are recursive functions, so that what they give can be stated step by step (`Undone`).
- `ScopesAreKept`: `Spec => KeepsScopes`, the refinement of `Scopes`. The implementation has one list of pointers to which everything is added, and takes things out
  by address, by frame or as the newest two; the abstract stack of scopes ends a block by dropping it. They agree only if each end takes out exactly
  what its own scope had, so `Core` and `Owned` are not enough: `Exact` says that the table is the keyword, the macros of the project and, once each, what
  the frames and open constructs will take out or refer to, and no more. As the table descends in memory, the part of it that lies in a
  scope's piece of memory is determined by which symbols those are (`Among`, `SymbolsBetween`, `Own`), and with that the mapped scopes before and after
  a step are compared. One lemma says so for each action (`DeclareMaps`, `BeginFunctionMaps`, `EndMaps`, `EndTagMaps`, `EndLoopMaps`,
  `NextFileMaps` and the others), `InitMaps` and `NextMaps` put them together.

- `ArgumentsStayNested`, `NoMacroWithinItself` (`MacroExpansion_proofs`): `Spec => []CallsNest` and
  `Spec => []NeverInItself`, for all texts, macros and bodies and any size of the stack. `NeverInItself` is about
  the streams alone, but whether it survives a step depends on the C stack: the body that a call puts on the stack when its last argument
  ends is named when the call *begins*. So `Inv` adds `Pending`, that the macro of a call in progress is not the name of any stream below
  its argument, and `CallsNest`, which is defined by pairing argument streams with the calls that expand them, and needs one
  lemma for each thing a step can do to the two stacks (`NestEnter`, `NestLeave`, `NestBegin`, `NestArgument`, `NestReturn`, `NestDrop`).
  These two need no assumption about the macros.
- `ExpansionTyped`: `Spec => []TypeOK`, for all macros that `MacrosAssumption` admits. Two parts are more than typing: the array of
  `getActualMacroArguments()`, which is as long as the macro has parameters, is never overrun, and what `##` and the arguments make of a body are lexems again.
  For the latter the invariant `Whole` tells two kinds of lexems apart. The file, the arguments and the streams have no `ARG`; the body that waits for its
  arguments may have one, of a parameter of its own macro only, so that replacing them leaves none (`ReplacedIs`). While `##` is carried out the place of the
  left side may be one behind what is written, when a comma was taken back (`LexemAt`), and no further (`Right`), in any body with any number of `##`
  (`CollatedIs`, by induction over the body). An expanding call has an argument left to expand, which is why the last one finds a value for every parameter.

- `LookupsStayRight` (`SnapshotFile_proofs`): `Spec => []LookupsAreRight`, for any size of the table, any names and hash values,
  and any shift that reaches all slots (`TableAssumption`: 211 does, for 50000 slots and for 100). The invariant is that what a name was
  probed past when it was added is still taken by other names (`Reached`), which holds as nothing is ever taken out, and that
  the count is at least the number of slots taken and less than the size (`RightTable`), so that there is always a free slot for a
  search to end at (`SearchEnds`). That the *first* such slot exists is the well-foundedness of the natural numbers.
- `ReferencesAreKept`: `HeadersStay` implies `Spec => KeepsReferences`, the refinement of `KnownReferences`, for any table, files, symbols, lines and usages, any
  number of references, and any number of servers and saves. `HeadersStay` says that no file that others include is among those that disappear; without it the property is
  violated (*The snapshot* above).
  The difficulty is that writer and reader are never there together, and their numbers differ. So the proof gives the records a meaning of their own, by name (`Means`): what the
  last numbers are, which file each number stands for, which item is current, and which references and knowledge times have been told so far (`Meanings`).
  The writer's side, `WrittenTells`: what `Written` can be tells all that is to be kept and, record by record, nothing else (`Tells`, `Parts`), although a number is left out when
  it is the last one of its tag, as the writer's last numbers are those that a reader will have (`Writes`). Writing is a loop over the files, the items and each item's list
  (`WriteFiles`, `WriteItems`, `WriteReferences`, recursive functions), and what is told so far is carried along it (`FilesWritten`, `ItemsWritten`, `ReferencesWritten`).
  That needs every reference's file and every include item's file to have been written as a file, which is where `HeadersStay` comes in (`FilesAreWritten`).
  The reader's side is the invariant `KInv`. While a server scans, `fileNumberMapping` and its tables are what the records read so far mean, in its own numbers
  (`FollowsIn`); one lemma for each kind of record (`NumberRead`, `FileRead`, `ItemRead`, `ReferenceRead`). What is cut short means the same as far as it goes (`PrefixMeant`), so it gives a part.
  `Sound` is what both sides need of the tables: a name has one number, `NO_FILE` is where it always is, references are of files that are there and not marked as deleted, and no two are at one
  place. The translation of numbers into names is then one to one, and each step on the numbers is the promised one on the names
  (`AddFileNameStep`, `BeginParseStep`, `AddReferenceStep` and the others, `NextKnown`). That the reader never meets an item without its file, and so never asserts, is part of it.

- `ExtractTyped`, `ExtractedIsEntered` (`ExtractFlow_proofs`): `Spec => []TypeOK` and `Spec => []JumpsStay`, for any cost, so texts of any
  length and depth with a region anywhere. `JumpsStay` is about two views of one function: `areThereJumpsInOrOutOfBlock()` compares the sides
  of nodes, found by counting markers in what the parser left, and `Succ` says where C goes on in the text; they agree but for a case label and a continue in a switch, which `JumpsAreKnown` leaves out. The invariant `Inv` ties them while the text is parsed.
  `Labels`: every label is at one node, and those that the end of an open construct will define are at none yet and
  different from each other's, so that `Target` of a jump will be the node the grammar meant. `Breaks`: the symbols `" %cntl%"` are a pair for each open
  loop and switch, in their order, the second of which is the label of its end; this is `TypeOK`'s deep part, and it is why a break, which knows only the name of
  the symbol, gets the label of the innermost construct. `JumpsLead`: each jump in the text has left a node on its own side of the region, whose label is at a node on the
  side of what it leaves, or is awaited there. `Opened`, `Ended` and `Regions` say that constructs and the region nest: what is open began on the side that the open
  region says, and a construct that has ended did so on the side it began on, which is all that a `while` needs to be entered and left on one side.
  The extraction adds `Whole`, that nothing is open any more and that the test has passed, from which `NoCross` follows: each jump of the
  graph goes to a node on its side; `SuccStays` carries that over to the text, one kind of token at a time. The invariant was model-checked first.

`Freshness` and `IncludeWalk` use the same `IncludeClosure`, so what `Freshness` takes
for the result of a walk is what the walk is proved to compute, below its cap.

*Only model-checked*: `MissingIsKnown`, `StaleIsKnown`, `OwnTextIsKnown` and
`NoDatedGhostsAfterRemoval` beyond the hypotheses above, so with unsaved texts, with files that change in the middle of a request, and
the first of them after a crash of a server that parses the request file (in these the parts of a CU disagree for a while, and the invariant would have to say
in each phase who is going to notice); and
`PartialWorkAddsUp`, which is liveness under fairness and out of the prover's reach. Of `EditorText`, `MarkersStick`, which follows single characters and so
needs texts in which no two are the same. Of
`ExtractFlow`, `ValuesArrive` and `NothingMore`, which compare a recursive analysis with a recursive reference: what either computes for every
graph takes an induction over its calls, and that the analysis is complete hangs on the order in which it meets the nodes. Of `MacroExpansion` `ExpandsAsC`, which compares with a recursive definition, and `ExpansionEnds`, which
needs a measure of what is still to be expanded.

## The plan

What decides whether the server's answers are true comes first: knowledge
(`Freshness`, with `IncludeGraph` and `IncludeWalk`), then what is kept of it between
requests (`Browsing`), and what a refactoring does to the user's files (`EditorText`). What is kept between servers is `SnapshotFile`. Then what a parse does: symbols
(`Symbols`, `Scopes`), macros (`MacroExpansion`), and the one refactoring that analyses code (`ExtractFlow`). Next, in this order:

| Module | Of | Composes | Abstract specification and properties | Proofs |
|---|---|---|---|---|
| `Refactoring` | `refactory.c`, `move_function.c`, `organize_includes.c` | `EditorText` | all edits or none: a refused refactoring leaves every file as it was | refinement of the all-or-nothing specification |
| `ProjectOptions` | `options.c`, `optionsets.c`, `startup.c` | `Freshness`, which gets a changed config and `clearAllKnowledge()` | a request's options are those of its project and its own, whatever came before | |
| `Preprocessor` | `yylex.c`, `cppexp_parser.y` | `MacroExpansion`, `Symbols` | the include and conditional stacks balance; a guarded header is read once; lines and directives within a call | |
| `LspSession` | `lsp*.c` | `Freshness`, `Browsing` | a request is answered from the latest text the client sent | |
| `Completion` | `complete.c` | | the limit loses no better candidate | |

*Runs.* One per module, on tables of three slots and texts of up to five characters. The whole set stays small enough to run
after every change: when a module is added, runs that ask related questions are merged (`MCFreshnessHeld` and `MCFreshnessDisk`). A run leaves out
a type invariant that is proved, but for those that TLC takes no time for.

*Proofs*, beside those of the table: `StaleIsKnown` for unsaved texts, where `Met` has to be said of a
buffer's time, and `OwnTextIsKnown` for files that change during a parse, for which a part may also be older than its
text if the file's time is after it (`ChangesInv` has that half).

## Not modelled, and why

- The grammar and the generated parsers: a table, and what a parse finds is a constant of
  the models (`Emits`, `Found`), or the text is the model's input (`Symbols`, `ExtractFlow`, `MacroExpansion`). The lexer's character classes, formatting, logging, the
  protocol's record layout: text, without a state of their own.
- Vendored byacc and the editor clients: external. What the clients do is in the
  environment actions of `Freshness` and `Browsing`.
- The components of the plan, until their modules are written; `PROJECT.json` lists them
  all under `components` with their status.
