------------------------------ MODULE Freshness ------------------------------
(***************************************************************************)
(* How the server keeps its references fresh: the part of a request that   *)
(* runs before the answer (callServer() of server.c with freshness.c,      *)
(* rebuild.c, projectstructure.c, the held buffers of editor.c and the     *)
(* snapshot), together with the client that holds unsaved buffers and the  *)
(* other programs that write the files.                                    *)
(*                                                                         *)
(* A text is a number: every edit makes a new one, and what a text         *)
(* includes is the constant Includes.  A reference is kept as the part of  *)
(* a file that one parse put in the table, with the texts it was read      *)
(* from (saw), those of them that a buffer had from an earlier parse of    *)
(* the request (earlier), and the knowledge time of that parse (at).  The  *)
(* code keeps no such provenance; here it is what the properties look at,  *)
(* and no action of the server reads by, at or earlier, or compares the    *)
(* texts of saw with other texts.                                          *)
(*                                                                         *)
(* LaterThan, NothingBelow and the like are mistaken forms of the          *)
(* definition that follows them, for the properties to catch.              *)
(***************************************************************************)
EXTENDS IncludeGraph, Integers, FiniteSets

CONSTANTS
    CUs, Headers,    \* the project's files; isCompilationUnit() is \in CUs
    NoFile,          \* NO_FILE_NUMBER, a request that names no file
    NoText,          \* no such file on disk, or not held by the client
    Includes(_, _),  \* the headers a text of a file includes
    Quoted,          \* the headers included with "...", which the scan sees
    Ops,             \* the kinds of request that are sent
    Asked,           \* the files that requests name
    Gap,             \* COARSE_CLOCK_GAP_IN_NANOSECONDS
    MaxLag,          \* how far the file system's clock lags the system's
    Pace,            \* the time an action of the user takes
    MaxBuild,        \* MAX_CUS_TO_REPARSE
    SaveEvery,       \* the snapshot is saved after so many CUs
    EditPhases,      \* the phases of a request in which the disk may change
    Holdable,        \* the files the client may hold unsaved text of
    Removable,       \* the files that may be removed from disk
    Returnable,      \* the removed files that may be moved back as they were
    MaxEdits,        \* bound: texts made after the first
    MaxTime,         \* bound: the clock
    MaxRestarts      \* bound: crashes and exits

File == CUs \cup Headers
Text == 0..MaxEdits
Time == 0..MaxTime   \* zero is NULL_TIMESTAMP

ASSUME FilesAssumption ==
    /\ CUs \cap Headers = {}
    /\ NoFile \notin File
    /\ NoText \notin Nat
    /\ \A f \in File : \A t \in Text : Includes(f, t) \subseteq Headers
    /\ Quoted \subseteq Headers /\ Asked \subseteq File \cup {NoFile}
    /\ Ops \subseteq {"push", "menu", "search", "unused", "query"}

ASSUME ClockAssumption ==
    /\ Gap \in Nat /\ MaxLag \in Nat /\ Pace \in Nat \ {0}
    /\ MaxLag < Gap
    /\ MaxEdits \in Nat /\ MaxTime \in Nat
    /\ Gap + 1 < MaxTime
    /\ MaxBuild \in Nat \ {0} /\ SaveEvery \in Nat \ {0}

VARIABLES
    \* The world outside the server
    disk, mtime,      \* a file's text on disk and its modification time
    moved,            \* what a removed file was, to move it back
    client,           \* the unsaved text the client holds of a file
    clock, edits, restarts,
    snap,             \* the snapshot (.cx file)
    \* The file table
    table, deleted, know, change, letGo, scanTime, scanned,
    refs,             \* the reference table
    buf,              \* the preloaded editor buffers
    loaded,           \* the editor buffers that parses loaded from disk
    open,             \* projectContextInitialized
    \* The request in progress
    pc, req, graph, asked, toBuild, nbuilt, strip, parse

outside == <<disk, mtime, moved, client, edits, restarts>>
items == <<table, deleted, know, change, letGo, scanTime, scanned>>
buffers == <<buf, loaded>>
request == <<req, graph, asked, toBuild, nbuilt, strip, parse>>
vars == <<outside, clock, snap, items, refs, buffers, open, pc, request>>

-----------------------------------------------------------------------------
(* What the server reads *)

NoBuffer == [text |-> NoText, time |-> 0]
NoBuffers == [f \in File |-> NoBuffer]
Held(f) == buf[f] # NoBuffer
IsLoaded(f) == loaded[f] # NoBuffer
OnDisk(f) == disk[f] # NoText

\* The text and the time that findOrCreateAndLoadEditorBufferForFile() and
\* editorFileModificationTime() give: of the buffer, also of one that was loaded
\* earlier in the request, before those on disk.
Reads(f) == IF Held(f) THEN buf[f].text ELSE IF IsLoaded(f) THEN loaded[f].text ELSE disk[f]
ModificationTime(f) ==
    IF Held(f) THEN buf[f].time ELSE IF IsLoaded(f) THEN loaded[f].time ELSE mtime[f]

\* editorFileExists() does not count a buffer that was loaded from a file which
\* is gone since, but a parse can still open it.
Exists(f) == Held(f) \/ OnDisk(f)
Openable(f) == Reads(f) # NoText

\* The buffers after the files have been opened, which stay to the end of the request
WithOpened(files) ==
    [f \in File |-> IF f \in files /\ ~Held(f)
                    THEN [text |-> Reads(f), time |-> ModificationTime(f)] ELSE loaded[f]]

\* Where the #includes of the texts lead, as a parse follows them.
IncludesOf(f) == IF Openable(f) THEN {h \in Includes(f, Reads(f)) : Openable(h)} ELSE {}
IncludesNow == EdgesOf([f \in File |-> IncludesOf(f)])

Reached(edges, f) == {f} \cup IncludeClosure(File, edges, f)
ReachNow(f) == Reached(IncludesNow, f)

\* What a parse of f puts in the table: its part of each file it reaches.  A
\* part depends on the file's text and on the texts that file includes.  It is
\* dated when all of those files already had a change time.
Emits(f, knowledgeTime) ==
    LET edges == IncludesNow
        part(g, reach) == [file |-> g, by |-> f, at |-> knowledgeTime,
                           saw |-> [h \in reach |-> Reads(h)],
                           earlier |-> {h \in reach : IsLoaded(h)},
                           dated |-> \A h \in reach \cap Headers : change[h] # 0]
    IN  {part(g, Reached(edges, g)) : g \in Reached(edges, f)}

\* The same references of the same file, put there by the same CU.  Those that
\* are in the table already are not added again.
SamePart(r, p) == r.file = p.file /\ r.by = p.by /\ r.saw = p.saw
Renewed(parts) == parts \cup {r \in refs : \A p \in parts : ~SamePart(r, p)}

IncludeReferences(r) == {h \in DOMAIN r.saw : h \in Includes(r.file, r.saw[r.file])}

\* buildIncludeGraph(): the include references of the table, which are
\* references like others, and what the scan found.
IncludeEdges ==
    EdgesOf(scanned) \cup UNION {{<<r.file, h>> : h \in IncludeReferences(r)} : r \in refs}

\* removeReferenceableItemsForFile(), for a set of files
Without(files) == {r \in refs : r.file \notin files}

-----------------------------------------------------------------------------
(* Freshness *)

\* changedAfter(): a time that may be up to Gap too early is still after.
LaterThan(changeTime, readTime) == readTime < changeTime
ChangedAfter(changeTime, readTime) == readTime - Gap < changeTime

\* changeTimeNow()
ChangeTimeNow == clock - Gap

\* changeTimeOf(), before its cache: a vanished file has a zero time.
ChangeTimeOf(f) ==
    LET t == ModificationTime(f)
    IN  IF t # 0 /\ t < change[f] THEN change[f] ELSE t

\* prerequisiteChangedAfter()
ChangedIfItExists(changeTime, knowledgeTime) == ChangedAfter(changeTime, knowledgeTime)
PrerequisiteChangedAfter(changeTime, knowledgeTime) ==
    changeTime = 0 \/ ChangedAfter(changeTime, knowledgeTime)

\* whyKnowledgeIsOutOfDate(), with the edges and change times of a request
KnowledgeIsOutOfDate(edges, times, c) ==
    \/ know[c] = 0
    \/ PrerequisiteChangedAfter(ModificationTime(c), know[c])
    \/ \E h \in IncludeClosure(File, edges, c) :
            PrerequisiteChangedAfter(times[h], know[c])

\* The build lists that addToBuildList() can give for the candidates, added in
\* some order until the list is full
NothingAdded(list, candidates) == {list}
AddedToBuildList(list, candidates) ==
    {l \in SUBSET (list \cup candidates) :
        /\ list \subseteq l
        /\ \/ Cardinality(l) = MaxBuild
           \/ Cardinality(l) < MaxBuild /\ candidates \subseteq l}

\* contentTimeOf()
TimeOfFile(f) == ModificationTime(f)
ContentTimeOf(f) == IF ModificationTime(f) < letGo[f] THEN letGo[f] ELSE ModificationTime(f)

-----------------------------------------------------------------------------
(* The kinds of request, by what callServer() does for them.  "push" parses *)
(* the request file (browsing, completion, extraction), "menu" answers from *)
(* the session, "search" names a symbol, "unused" does both, and "query"   *)
(* needs no references.                                                    *)

RequiresProcessing(op) == op \in {"push", "search", "unused"}
ParsesRequestFile(op) == op \in {"push", "unused"}
NeedsWholeProject(op) == op \in {"search", "unused"}
AnsweredWithoutReferences(op) == op = "query"

NoRequest == [file |-> NoFile, op |-> "query", wasOpen |-> FALSE]
NoParse == [file |-> NoFile, time |-> 0, then |-> "idle"]
NoTimes == [f \in File |-> 0]
NoSnapshot == [files |-> {}, know |-> NoTimes, change |-> NoTimes, refs |-> {}]

ServerStarts ==   \* the memory of a server that has just started
    /\ table' = {} /\ deleted' = {}
    /\ know' = NoTimes /\ change' = NoTimes /\ letGo' = NoTimes
    /\ scanTime' = NoTimes /\ scanned' = [f \in File |-> {}]
    /\ refs' = {} /\ buf' = NoBuffers /\ loaded' = NoBuffers /\ open' = FALSE
    /\ pc' = "idle" /\ req' = NoRequest /\ graph' = {} /\ asked' = NoTimes
    /\ toBuild' = {} /\ nbuilt' = 0 /\ strip' = FALSE /\ parse' = NoParse

Init ==
    /\ disk = [f \in File |-> 0] /\ mtime = [f \in File |-> 1]
    /\ moved = NoBuffers
    /\ client = [f \in File |-> NoText]
    /\ clock = Gap + 2 /\ edits = 0 /\ restarts = 0
    /\ snap = NoSnapshot
    /\ table = {} /\ deleted = {}
    /\ know = NoTimes /\ change = NoTimes /\ letGo = NoTimes
    /\ scanTime = NoTimes /\ scanned = [f \in File |-> {}]
    /\ refs = {} /\ buf = NoBuffers /\ loaded = NoBuffers /\ open = FALSE
    /\ pc = "idle" /\ req = NoRequest /\ graph = {} /\ asked = NoTimes
    /\ toBuild = {} /\ nbuilt = 0 /\ strip = FALSE /\ parse = NoParse

-----------------------------------------------------------------------------
(* The client and the other programs *)

\* The file system stamps a file from a clock that lags.  Nothing else was
\* stamped within the same tick of it.
FreshStamp(t) == \A g \in File : mtime[g] < t /\ buf[g].time < t

\* A program writes a file.
DiskEdit(f) ==
    /\ pc \in EditPhases
    /\ edits < MaxEdits /\ clock < MaxTime
    /\ disk[f] # NoText
    /\ \E lag \in 0..MaxLag :
        /\ FreshStamp(clock - lag)
        /\ mtime' = [mtime EXCEPT ![f] = clock - lag]
    /\ edits' = edits + 1
    /\ disk' = [disk EXCEPT ![f] = edits']
    /\ clock' = clock + 1
    /\ UNCHANGED <<moved, client, restarts, snap, items, refs, buffers, open, pc, request>>

\* A file is moved away, and may be moved back as it was.
DiskRemove(f) ==
    /\ pc \in EditPhases /\ f \in Removable
    /\ disk[f] # NoText
    /\ moved' = [moved EXCEPT ![f] = [text |-> disk[f], time |-> mtime[f]]]
    /\ disk' = [disk EXCEPT ![f] = NoText]
    /\ mtime' = [mtime EXCEPT ![f] = 0]
    /\ UNCHANGED <<client, clock, edits, restarts, snap, items, refs, buffers, open, pc, request>>

DiskMoveBack(f) ==
    /\ f \in Returnable /\ pc \in EditPhases
    /\ disk[f] = NoText /\ moved[f] # NoBuffer
    /\ disk' = [disk EXCEPT ![f] = moved[f].text]
    /\ mtime' = [mtime EXCEPT ![f] = moved[f].time]
    /\ moved' = [moved EXCEPT ![f] = NoBuffer]
    /\ UNCHANGED <<client, clock, edits, restarts, snap, items, refs, buffers, open, pc, request>>

\* The user edits a buffer without saving it, reverts it, or saves it.  The
\* client waits for each answer, so never during a request.
UserEdit(f) ==
    /\ pc = "idle" /\ f \in Holdable
    /\ edits < MaxEdits /\ clock + Pace <= MaxTime
    /\ edits' = edits + 1
    /\ client' = [client EXCEPT ![f] = edits']
    /\ clock' = clock + Pace
    /\ UNCHANGED <<disk, mtime, moved, restarts, snap, items, refs, buffers, open, pc, request>>

UserRevert(f) ==
    /\ pc = "idle" /\ client[f] # NoText
    /\ clock + Pace <= MaxTime
    /\ client' = [client EXCEPT ![f] = NoText]
    /\ clock' = clock + Pace
    /\ UNCHANGED <<disk, mtime, moved, edits, restarts, snap, items, refs, buffers, open, pc, request>>

UserSave(f) ==
    /\ pc = "idle" /\ client[f] # NoText
    /\ clock + Pace <= MaxTime
    /\ FreshStamp(clock)
    /\ disk' = [disk EXCEPT ![f] = client[f]]
    /\ mtime' = [mtime EXCEPT ![f] = clock]
    /\ client' = [client EXCEPT ![f] = NoText]
    /\ clock' = clock + Pace
    /\ UNCHANGED <<moved, edits, restarts, snap, items, refs, buffers, open, pc, request>>

\* Time passes during a request.  Where nothing else can happen in between, it
\* passes at the end of the request.
Tick ==
    /\ pc \in EditPhases \ {"idle"} /\ clock < MaxTime
    /\ clock' = clock + 1
    /\ UNCHANGED <<outside, snap, items, refs, buffers, open, pc, request>>

-----------------------------------------------------------------------------
(* A request *)

\* openEditorBufferFromPreload(): a preload file is written again only when
\* the buffer changed, and loaded again only when its time differs.
Preloaded(f) ==
    LET sent == IF Held(f) /\ buf[f].text = client[f]
                THEN buf[f] ELSE [text |-> client[f], time |-> clock]
    IN  IF Held(f) /\ buf[f].time = sent.time THEN buf[f] ELSE sent

\* The files whose unsaved text the client no longer holds, by what becomes of
\* them: a CU is built again and a header has changed now.
NotBuiltAgain(gone) == {}
BuiltAgain(gone) == {c \in gone \cap CUs : disk[c] # NoText}
ChangedNow(gone) == {h \in gone \cap Headers : disk[h] # NoText}

\* loadSnapshotFromStore() fills in the times that are zero.
Filled(mine, stored) == [f \in File |-> IF mine[f] = 0 THEN stored[f] ELSE mine[f]]

\* The head of a request, to the project context: the client's buffers are
\* preloaded, those it no longer holds are let go (closeEditorBuffersNoLongerHeld,
\* letGoOfHeldHeader), and the first request that names a file opens the project.
BeginRequest(f, op) ==
    /\ pc = "idle"
    /\ f # NoFile => disk[f] # NoText \/ client[f] # NoText
    /\ f = NoFile => op = "menu"
    /\ LET gone   == {g \in File : Held(g) /\ client[g] = NoText}
           noFile == {g \in gone : disk[g] = NoText}
           holds  == {g \in File : client[g] # NoText}
           named  == holds \cup ({f} \ {NoFile})
           opens  == ~open /\ f # NoFile
       IN  /\ buf' = [g \in File |-> IF client[g] # NoText THEN Preloaded(g) ELSE NoBuffer]
           /\ toBuild' \in AddedToBuildList({}, BuiltAgain(gone))
           /\ letGo' = [g \in File |-> IF g \in ChangedNow(gone) THEN ChangeTimeNow ELSE letGo[g]]
           /\ table' = table \cup named \cup (IF opens THEN snap.files ELSE {})
           /\ deleted' = (deleted \ named) \cup noFile
           /\ know' = IF opens THEN Filled(know, snap.know) ELSE know
           /\ change' = IF opens THEN Filled(change, snap.change) ELSE change
           /\ refs' = Without(noFile) \cup (IF opens THEN snap.refs ELSE {})
           /\ open' = (open \/ opens)
           /\ req' = [file |-> f, op |-> op, wasOpen |-> open]
    /\ nbuilt' = 0 /\ strip' = FALSE
    /\ pc' = "scan"
    /\ UNCHANGED <<outside, clock, snap, scanTime, scanned, loaded, graph, asked, parse>>

\* What the scan of the given files finds: it reads the disk, sees only quoted
\* includes of files that exist, and goes on to the headers it had not met.
ScanOf(f) == IF disk[f] # NoText
             THEN {h \in Includes(f, disk[f]) \cap Quoted : disk[h] # NoText} ELSE {}

ScannedFrom(files) ==
    LET news == EdgesOf([f \in File |-> ScanOf(f) \ table])
    IN  files \cup UNION {IncludeClosure(File, news, f) : f \in files}

\* scanProjectStructure() on the request that opens the project, otherwise
\* rescanChangedFiles()
Scan ==
    /\ pc = "scan"
    /\ LET onDisk  == {c \in CUs : disk[c] # NoText}
           first   == ~req.wasOpen
           changed == {g \in table : scanTime[g] # 0 /\ disk[g] # NoText
                                       /\ ChangedAfter(mtime[g], scanTime[g])}
           read    == ScannedFrom(IF first THEN onDisk ELSE changed)
           found   == UNION {ScanOf(g) : g \in read}
           missing == IF first THEN {c \in CUs \cap table : c \notin onDisk} ELSE {}
       IN  IF open
           THEN /\ scanTime' = [g \in File |-> IF g \in read THEN clock ELSE scanTime[g]]
                /\ scanned' = [g \in File |-> IF g \in read THEN ScanOf(g)
                                              ELSE scanned[g]]
                /\ table' = table \cup read \cup found
                /\ deleted' = (deleted \ (read \cup found)) \cup missing
                /\ refs' = Without(missing)
           ELSE UNCHANGED <<scanTime, scanned, table, deleted, refs>>
    /\ pc' = "remove"
    /\ UNCHANGED <<outside, clock, snap, know, change, letGo, buffers, open, request>>

\* The changed headers that one includes
NothingBelow(edges, changed, h) == {}
Below(edges, changed, h) == IncludeClosure(File, edges, h) \cap changed

\* collectPrerequisites() and removeReferencesOfChangedFiles(): a header whose
\* content is newer than its change time loses its references, and so does
\* every header that includes it.
RemoveChanged ==
    /\ pc = "remove"
    /\ graph' = IncludeEdges
    /\ LET known     == Headers \cap table
           changed   == {h \in known : change[h] # 0 /\ change[h] < ContentTimeOf(h)}
           includers == {h \in known \ changed : Below(graph', changed, h) # {}}
           own       == [h \in File |-> IF h \in changed \/ (h \in known /\ change[h] = 0)
                                        THEN ContentTimeOf(h) ELSE change[h]]
       IN  /\ refs' = Without(changed \cup includers)
           /\ \E met \in [includers -> changed] :   \* the first changed one it meets
                /\ \A h \in includers : met[h] \in Below(graph', changed, h)
                /\ change' = [h \in File |->
                        IF h \in includers /\ own[h] < ContentTimeOf(met[h])
                        THEN ContentTimeOf(met[h]) ELSE own[h]]
    /\ pc' = "collect"
    /\ UNCHANGED <<outside, clock, snap, table, deleted, know, letGo, scanTime, scanned,
                   buffers, open, req, asked, toBuild, nbuilt, strip, parse>>

\* The goal: held CUs, the request CU and its siblings, as far as they are out
\* of date and fit.  A request CU the operation parses itself is only stripped.
Collect ==
    /\ pc = "collect"
    /\ LET times == [f \in File |-> ChangeTimeOf(f)]
           stale == {c \in CUs \cap table : KnowledgeIsOutOfDate(graph, times, c)}
           f     == req.file
           heldCUs  == IF req.wasOpen THEN {c \in stale \ deleted : Held(c)} ELSE {}
           strips   == ParsesRequestFile(req.op) /\ f \in stale
           toAnswer == IF ~RequiresProcessing(req.op) /\ ~AnsweredWithoutReferences(req.op)
                       THEN {f} \cap stale ELSE {}
           shared   == ({f} \cup IncludeClosure(File, graph, f)) \cap Headers
           siblings == IF f # NoFile /\ open /\ ~AnsweredWithoutReferences(req.op)
                       THEN {c \in stale \ {f} : IncludeClosure(File, graph, c) \cap shared # {}}
                       ELSE {}
       IN  /\ \E l1 \in AddedToBuildList(toBuild, heldCUs) :
              \E l2 \in AddedToBuildList(l1, toAnswer) :
                 toBuild' \in AddedToBuildList(l2, siblings)
           /\ strip' = strips
           /\ refs' = IF strips THEN Without({f}) ELSE refs
           /\ asked' = times
    /\ pc' = "build"
    /\ UNCHANGED <<outside, clock, snap, items, buffers, open, req, graph, nbuilt, parse>>

\* The snapshot saveReferences() writes: the files that are not deleted, with
\* their knowledge and change times, and the references
SnapshotWithoutReferences(gone, kn, rs) ==
    [files |-> table \ gone, know |-> kn, change |-> change, refs |-> {}]
Snapshot(gone, kn, rs) ==
    [files |-> table \ gone,
     know |-> [f \in File |-> IF f \in table \ gone THEN kn[f] ELSE 0],
     change |-> [f \in File |-> IF f \in table \ gone THEN change[f] ELSE 0],
     refs |-> rs]

\* Every SaveEvery-th CU of a round, built or gone, is followed by a save.
CountBuilt(gone, kn, rs) ==
    /\ nbuilt' = nbuilt + 1
    /\ snap' = IF (nbuilt + 1) % SaveEvery = 0 THEN Snapshot(gone, kn, rs) ELSE snap

\* buildKnowledgeOfCU(), to the point where the knowledge time is taken
BuildCU(c) ==
    /\ pc \in {"build", "buildAll"} /\ c \in toBuild
    /\ toBuild' = toBuild \ {c}
    /\ refs' = Without({c})
    /\ IF Exists(c)
       THEN /\ parse' = [file |-> c, time |-> clock, then |-> pc]
            /\ pc' = "parse"
            /\ UNCHANGED <<deleted, nbuilt, snap>>
       ELSE /\ deleted' = deleted \cup {c}
            /\ CountBuilt(deleted', know, refs')
            /\ UNCHANGED <<pc, parse>>
    /\ UNCHANGED <<outside, clock, table, know, change, letGo, scanTime, scanned,
                   buffers, open, req, graph, asked, strip>>

\* The parse reads the texts some time after the knowledge time was taken, and
\* the buffers it loads stay.
Parse ==
    /\ pc = "parse" /\ Openable(parse.file)
    /\ refs' = Renewed(Emits(parse.file, parse.time))
    /\ table' = table \cup ReachNow(parse.file)
    /\ deleted' = deleted \ ReachNow(parse.file)
    /\ loaded' = WithOpened(ReachNow(parse.file))
    /\ pc' = "parsed"
    /\ UNCHANGED <<outside, clock, snap, know, change, letGo, scanTime, scanned, buf, open,
                   request>>

\* After the parse, of a file for the operation or of a CU on the list
AfterParse(kn) ==
    /\ know' = kn
    /\ pc' = parse.then
    /\ parse' = NoParse
    /\ IF parse.then = "answer" THEN UNCHANGED <<nbuilt, snap>> ELSE CountBuilt(deleted, kn, refs)
    /\ UNCHANGED <<outside, clock, table, deleted, change, letGo, scanTime, scanned, refs,
                   buffers, open, req, graph, asked, toBuild, strip>>

EndParseNow == pc = "parsed" /\ AfterParse([know EXCEPT ![parse.file] = clock])
EndParse == pc = "parsed" /\ AfterParse([know EXCEPT ![parse.file] = parse.time])

\* A file that cannot be opened is not parsed, and keeps the knowledge time it had.
ParseFails == pc = "parse" /\ ~Openable(parse.file) /\ AfterParse(know)

\* analyseAllOutOfDateCUs(): for an operation on a name, every CU that is out
\* of date, judged by the graph and the change times the request already has.
\* Files it has not asked about are asked now.  Above the cap the user may
\* decline.
CollectAll ==
    /\ pc = "build" /\ toBuild = {}
    /\ open /\ NeedsWholeProject(req.op)
    /\ \E fresh \in SUBSET File :
        LET times == [f \in File |-> IF f \in fresh THEN ChangeTimeOf(f) ELSE asked[f]]
            stale == {c \in (CUs \cap table) \ deleted : KnowledgeIsOutOfDate(graph, times, c)}
        IN  \/ toBuild' = stale
            \/ Cardinality(stale) > MaxBuild /\ toBuild' = {}
    /\ nbuilt' = 0
    /\ pc' = "buildAll"
    /\ UNCHANGED <<outside, clock, snap, items, refs, buffers, open, req, graph, asked, strip, parse>>

\* processFile(), to where initializeFileProcessing() has opened the request file,
\* also a header, and with that loaded its text
ProcessFile ==
    /\ toBuild = {}
    /\ \/ pc = "build" /\ ~(open /\ NeedsWholeProject(req.op))
       \/ pc = "buildAll"
    /\ IF req.file # NoFile /\ ParsesRequestFile(req.op) /\ Openable(req.file)
       THEN pc' = "opened" /\ loaded' = WithOpened({req.file})
       ELSE pc' = "answer" /\ UNCHANGED loaded
    /\ UNCHANGED <<outside, clock, snap, items, refs, buf, open, request>>

\* singlePass(): the knowledge time is taken when the request file is open, and
\* before what it includes is.
SinglePass ==
    /\ pc = "opened"
    /\ parse' = [file |-> req.file, time |-> clock, then |-> "answer"]
    /\ pc' = "parse"
    /\ UNCHANGED <<outside, clock, snap, items, refs, buffers, open,
                   req, graph, asked, toBuild, nbuilt, strip>>

\* The answer is out, and closeAllEditorBuffersIfClosable() closes what was loaded.
EndRequest ==
    /\ pc = "answer"
    /\ pc' = "idle" /\ req' = NoRequest /\ graph' = {} /\ asked' = NoTimes
    /\ nbuilt' = 0 /\ strip' = FALSE
    /\ loaded' = NoBuffers
    /\ clock' = IF clock < MaxTime THEN clock + 1 ELSE clock
    /\ UNCHANGED <<outside, snap, items, refs, buf, open, toBuild, parse>>

-----------------------------------------------------------------------------
(* The server stops, and the next request starts another *)

\* The -exit option: forgetKnowledgeForHeldContent() and saveReferences()
Exit ==
    /\ pc = "idle" /\ restarts < MaxRestarts
    /\ restarts' = restarts + 1
    /\ snap' = IF open THEN Snapshot(deleted, [f \in File |-> IF Held(f) THEN 0 ELSE know[f]], refs)
                       ELSE snap
    /\ ServerStarts
    /\ UNCHANGED <<disk, mtime, moved, client, clock, edits>>

Crash ==
    /\ restarts < MaxRestarts
    /\ restarts' = restarts + 1
    /\ ServerStarts
    /\ UNCHANGED <<disk, mtime, moved, client, clock, edits, snap>>

Server ==
    \/ Scan \/ RemoveChanged \/ Collect
    \/ (\E c \in CUs : BuildCU(c)) \/ Parse \/ ParseFails \/ EndParse
    \/ CollectAll \/ ProcessFile \/ SinglePass \/ EndRequest

Environment ==
    \/ \E f \in File : \/ DiskEdit(f) \/ DiskRemove(f) \/ DiskMoveBack(f)
                       \/ UserEdit(f) \/ UserRevert(f) \/ UserSave(f)
    \/ Tick \/ Exit \/ Crash

Next ==
    \/ \E f \in Asked, op \in Ops : BeginRequest(f, op)
    \/ Server
    \/ Environment

Spec == Init /\ [][Next]_vars

\* The server goes on with a request it has begun, and the client goes on asking.
FairSpec ==
    /\ Spec
    /\ WF_vars(Server)
    /\ \A f \in Asked, op \in Ops : SF_vars(BeginRequest(f, op))

-----------------------------------------------------------------------------
(* Properties *)

Part == {r \in [file : File, by : File, at : Time,
                saw : UNION {[S -> Text] : S \in SUBSET File},
                earlier : SUBSET File, dated : BOOLEAN] :
            r.file \in DOMAIN r.saw}
Buffer == {NoBuffer} \cup [text : Text, time : Time]

WorldTypeOK ==
    /\ disk \in [File -> Text \cup {NoText}] /\ mtime \in [File -> Time]
    /\ moved \in [File -> Buffer] /\ client \in [File -> Text \cup {NoText}]
    /\ clock \in Gap + 2..MaxTime /\ edits \in Text /\ restarts \in Nat
SnapshotTypeOK ==
    snap \in [files : SUBSET File, know : [File -> Time], change : [File -> Time],
              refs : SUBSET Part]
ItemsTypeOK ==
    /\ table \subseteq File /\ deleted \subseteq File
    /\ know \in [File -> Time] /\ change \in [File -> Time]
    /\ letGo \in [File -> Time] /\ scanTime \in [File -> Time]
    /\ scanned \in [File -> SUBSET Headers]
ContentTypeOK ==
    refs \subseteq Part /\ open \in BOOLEAN
    /\ buf \in [File -> Buffer] /\ loaded \in [File -> Buffer]
RequestTypeOK ==
    /\ pc \in {"idle", "scan", "remove", "collect", "build", "buildAll", "opened",
               "parse", "parsed", "answer"}
    /\ req \in [file : File \cup {NoFile}, op : Ops \cup {"query"}, wasOpen : BOOLEAN]
    /\ graph \subseteq File \X Headers /\ asked \in [File -> Time]
    /\ toBuild \subseteq CUs /\ nbuilt \in Nat /\ strip \in BOOLEAN
    /\ parse \in [file : File \cup {NoFile}, time : Time,
                  then : {"idle", "build", "buildAll", "answer"}]
    /\ pc \in {"parse", "parsed"} => parse.file \in File /\ parse.then # "idle"
    /\ pc = "opened" => req.file \in File

\* Every variable stays within its type: the phases of a request, the times (zero
\* or one the clock has shown), and the shape of the tables.  A reference always
\* comes from a text that was there, however files appear and disappear.
TypeOK ==
    WorldTypeOK /\ SnapshotTypeOK /\ ItemsTypeOK /\ ContentTypeOK /\ RequestTypeOK

\* ADR-0035, "let missing references be known": when a request is answered, a
\* CU that is not out of date has all its references in the table, in its own
\* file and in every header it reaches.
MissingIsKnown ==
    pc = "answer" =>
        LET edges == IncludeEdges
            times == [f \in File |-> ChangeTimeOf(f)]
        IN  \A c \in (CUs \cap table) \ deleted :
                Exists(c) /\ ~KnowledgeIsOutOfDate(edges, times, c) =>
                    \A p \in Emits(c, 0) : \E r \in refs : SamePart(r, p)

\* What the user has in a file: the unsaved text, or the one on disk.
Sees(f) == IF client[f] # NoText THEN client[f] ELSE disk[f]

\* ADR-0032, an input that changed after the knowledge makes the CU out of
\* date: when a request is answered, a CU that is not out of date has only
\* references that were parsed from the texts the user has now.
StaleIsKnown ==
    pc = "answer" =>
        LET edges == IncludeEdges
            times == [f \in File |-> ChangeTimeOf(f)]
        IN  \A r \in refs :
                /\ r.file \in CUs \ deleted /\ r.by = r.file
                /\ ~KnowledgeIsOutOfDate(edges, times, r.by)
                => \A g \in DOMAIN r.saw : r.saw[g] = Sees(g)

\* ADR-0032, the knowledge time is taken before the content is read: whenever
\* the files change, also during a request, a CU that is not out of date has
\* been parsed from the texts that a parse of it would read now.  Not so of a text
\* that the request had loaded before it took that time, which may have changed
\* on disk in between without anyone knowing.
OwnTextIsKnown ==
    pc \in {"answer", "idle"} =>
        LET edges == IncludeEdges
            times == [f \in File |-> ChangeTimeOf(f)]
        IN  \A c \in (CUs \cap table) \ deleted :
                ~KnowledgeIsOutOfDate(edges, times, c) =>
                    \E r \in refs : /\ r.file = c /\ r.by = c
                                    /\ \A g \in DOMAIN r.saw \ r.earlier : r.saw[g] = Reads(g)

\* ADR-0032, "a gap too wide only costs an extra parse": whatever happens between
\* two parses, a text of a reference that is not what the server reads now has a
\* modification time that is after the knowledge time of the reference, or is gone.
\* This is not so of a file whose unsaved text the client stopped holding, which
\* is why those are built again or let go.  It is not so either, against what
\* rebuild.c says of the knowledge time, of a text the request had loaded earlier.
ChangesShow ==
    \A r \in refs : \A g \in DOMAIN r.saw \ (Holdable \cup r.earlier) :
        r.saw[g] # Reads(g) => PrerequisiteChangedAfter(ModificationTime(g), r.at)

IsGhost(r) == r.file \in Headers /\ \E g \in DOMAIN r.saw : r.saw[g] # Reads(g)

\* ADR-0035, "a file's references are removed when its content changes": once
\* the removal pass is done no header has a reference from another text than
\* the one the server reads, its own or one of a header it includes.  This is
\* not so of the references that were there before the pass met the header for
\* the first time: it keeps what the table has.
NoDatedGhostsAfterRemoval ==
    [][pc = "remove" /\ pc' = "collect" => \A r \in refs' : r.dated => ~IsGhost(r)]_vars

\* ADR-0035, "let partial work add up": no request builds more than the cap, but
\* when the files no longer change, asking about a file again and again ends with
\* every CU on disk that shares a header with it being current.
PartialWorkAddsUp ==
    \A f \in Asked \ {NoFile} :
        <>[](pc = "answer" =>
                LET edges == IncludeEdges
                    times == [g \in File |-> ChangeTimeOf(g)]
                IN  \A c \in CUs :
                        Exists(c) /\ (ReachNow(c) \cap ReachNow(f) \cap Headers) # {}
                        => ~KnowledgeIsOutOfDate(edges, times, c))
=============================================================================
