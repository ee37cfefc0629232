-------------------------- MODULE Freshness_proofs --------------------------
(***************************************************************************)
(* What holds of module Freshness for every project and every value of its *)
(* bounds: the types, and that changes show (ChangesShow).  Then, for      *)
(* files that change only on disk and between requests, what the answer to *)
(* a request rests on: no ghosts in the headers, no stale references and   *)
(* no missing ones in a CU that is judged current.                         *)
(***************************************************************************)
EXTENDS Freshness, TLAPS

-----------------------------------------------------------------------------
(* The closures of the include graph *)

\* Whatever the edges are, a closure stays within the files.
LEMMA ClosureIsOfFiles ==
    ASSUME NEW E, NEW f
    PROVE  IncludeClosure(File, E, f) \subseteq File
BY DEF IncludeClosure

\* A closure stays within any set of files that the edges do not lead out of.
LEMMA ClosureStaysWithin ==
    ASSUME NEW E, NEW f, NEW S \in SUBSET File,
           \A e \in E : e[2] \in S
    PROVE  IncludeClosure(File, E, f) \subseteq S
BY DEF IncludeClosure, ClosedFrom

\* The edges that buildIncludeGraph() collects lead from files to headers.
LEMMA IncludeEdgesType ==
    ASSUME ItemsTypeOK, ContentTypeOK
    PROVE  IncludeEdges \subseteq File \X Headers
<1>1. EdgesOf(scanned) \subseteq File \X Headers
  BY DEF ItemsTypeOK, EdgesOf
<1>2. \A r \in refs : IncludeReferences(r) \subseteq Headers /\ r.file \in File
  <2> SUFFICES ASSUME NEW r \in refs
               PROVE  IncludeReferences(r) \subseteq Headers /\ r.file \in File
    OBVIOUS
  <2>1. /\ r.file \in File /\ r.file \in DOMAIN r.saw
        /\ r.saw \in UNION {[S -> Text] : S \in SUBSET File}
    BY DEF ContentTypeOK, Part
  <2>2. r.saw[r.file] \in Text
    BY <2>1
  <2>3. Includes(r.file, r.saw[r.file]) \subseteq Headers
    BY <2>1, <2>2, FilesAssumption
  <2> QED
    BY <2>1, <2>3 DEF IncludeReferences
<1> QED
  BY <1>1, <1>2 DEF IncludeEdges

-----------------------------------------------------------------------------
(* What the operators of a request return *)

\* A time is a number, and so are the constants of the clock.
LEMMA TimesAreNatural ==
    /\ Gap \in Nat /\ MaxTime \in Nat /\ MaxLag \in Nat /\ Pace \in Nat
    /\ Time \subseteq Nat /\ 0 \in Time
    /\ Text \subseteq Nat /\ 0 \in Text /\ NoText \notin Text
BY FilesAssumption, ClockAssumption DEF Time, Text

\* A buffer of the server or of a move has a text, or is none at all.
LEMMA ModificationTimeType ==
    ASSUME WorldTypeOK, ContentTypeOK, NEW f \in File
    PROVE  /\ ModificationTime(f) \in Time
           /\ Openable(f) => Reads(f) \in Text
           /\ Exists(f) => Openable(f)
           /\ disk[f] # NoText => disk[f] \in Text
<1>1. /\ mtime[f] \in Time /\ disk[f] \in Text \cup {NoText}
      /\ buf[f] \in Buffer /\ loaded[f] \in Buffer
  BY DEF WorldTypeOK, ContentTypeOK
<1>2. /\ Held(f) => buf[f].text \in Text /\ buf[f].time \in Time
      /\ IsLoaded(f) => loaded[f].text \in Text /\ loaded[f].time \in Time
  BY <1>1 DEF Buffer, Held, IsLoaded
<1> QED
  BY <1>1, <1>2, TimesAreNatural DEF ModificationTime, Exists, OnDisk, Openable, Reads

\* The buffers that a parse leaves have a text and a time.
LEMMA WithOpenedType ==
    ASSUME WorldTypeOK, ContentTypeOK, NEW S \in SUBSET File, \A f \in S : Openable(f)
    PROVE  WithOpened(S) \in [File -> Buffer]
<1> SUFFICES ASSUME NEW f \in File
             PROVE  WithOpened(S)[f] \in Buffer
  BY DEF WithOpened
<1>1. loaded[f] \in Buffer /\ ModificationTime(f) \in Time /\ (f \in S => Reads(f) \in Text)
  BY ModificationTimeType DEF ContentTypeOK
<1>2. f \in S => [text |-> Reads(f), time |-> ModificationTime(f)] \in Buffer
  BY <1>1 DEF Buffer
<1> QED
  BY <1>1, <1>2 DEF WithOpened

\* A change time and a content time are times.
LEMMA ChangeTimesType ==
    ASSUME WorldTypeOK, ContentTypeOK, ItemsTypeOK, NEW f \in File
    PROVE  ChangeTimeOf(f) \in Time /\ ContentTimeOf(f) \in Time
<1>1. ModificationTime(f) \in Time
  BY ModificationTimeType
<1>2. change[f] \in Time /\ letGo[f] \in Time
  BY DEF ItemsTypeOK
<1> QED
  BY <1>1, <1>2 DEF ChangeTimeOf, ContentTimeOf

\* A file a parse reaches is a header that is there, or the file itself.
LEMMA ReachedFilesExist ==
    ASSUME WorldTypeOK, ContentTypeOK, NEW f \in File, Openable(f), NEW g \in ReachNow(f)
    PROVE  g \in File /\ Openable(g) /\ Reached(IncludesNow, g) \subseteq File
<1> DEFINE S == {h \in File : Openable(h)}
<1>1. \A e \in IncludesNow : e[2] \in S
  <2> SUFFICES ASSUME NEW g2 \in File, NEW h \in IncludesOf(g2)
               PROVE  h \in S
    BY DEF IncludesNow, EdgesOf
  <2>1. Openable(g2) => Includes(g2, Reads(g2)) \subseteq Headers
    BY ModificationTimeType, FilesAssumption
  <2> QED
    BY <2>1 DEF IncludesOf, File
<1> QED
  <2>1. IncludeClosure(File, IncludesNow, f) \subseteq S
    BY <1>1, ClosureStaysWithin
  <2> QED
    BY <2>1, ClosureIsOfFiles DEF ReachNow, Reached

\* What a parse puts in the table are parts of the files it reaches.
LEMMA EmittedPartsType ==
    ASSUME WorldTypeOK, ContentTypeOK, NEW f \in File, Openable(f), NEW t \in Time
    PROVE  Emits(f, t) \subseteq Part
<1> SUFFICES ASSUME NEW g \in ReachNow(f)
             PROVE  [file |-> g, by |-> f, at |-> t,
                     saw |-> [h \in Reached(IncludesNow, g) |-> Reads(h)],
                     earlier |-> {h \in Reached(IncludesNow, g) : IsLoaded(h)},
                     dated |-> \A h \in Reached(IncludesNow, g) \cap Headers : change[h] # 0]
                    \in Part
  BY DEF Emits, ReachNow
<1> DEFINE reach == Reached(IncludesNow, g)
           saw == [h \in reach |-> Reads(h)]
<1>1. g \in File /\ Openable(g) /\ reach \subseteq File
  BY ReachedFilesExist
<1>2. \A h \in reach : h \in File /\ Openable(h)
  BY <1>1, ReachedFilesExist DEF ReachNow
<1>3. saw \in [reach -> Text]
  BY <1>2, ModificationTimeType
<1>4. saw \in UNION {[S -> Text] : S \in SUBSET File}
  BY <1>1, <1>3
<1>5. g \in reach
  BY DEF Reached
<1>6. (\A h \in reach \cap Headers : change[h] # 0) \in BOOLEAN
  OBVIOUS
<1> DEFINE earlier == {h \in reach : IsLoaded(h)}
<1>8. earlier \in SUBSET File
  BY <1>1
<1> HIDE DEF reach, saw, earlier
<1>7. DOMAIN saw = reach
  BY DEF saw
<1> QED
  BY <1>1, <1>4, <1>5, <1>6, <1>7, <1>8 DEF Part, reach, saw, earlier

\* The scan stays within the files, whatever files it starts from.
LEMMA ScannedFilesType ==
    ASSUME NEW S \in SUBSET File
    PROVE  /\ ScannedFrom(S) \subseteq File
           /\ \A f \in File : ScanOf(f) \in SUBSET Headers
<1>1. \A f \in File : ScanOf(f) \in SUBSET Headers
  BY FilesAssumption DEF ScanOf
<1> DEFINE news == EdgesOf([f \in File |-> ScanOf(f) \ table])
<1>2. \A f \in S : IncludeClosure(File, news, f) \subseteq File
  BY ClosureIsOfFiles
<1>3. ScannedFrom(S) = S \cup UNION {IncludeClosure(File, news, f) : f \in S}
  BY DEF ScannedFrom
<1> HIDE DEF news
<1> QED
  BY <1>1, <1>2, <1>3

\* Loading a snapshot fills in times.
LEMMA FilledType ==
    ASSUME NEW mine \in [File -> Time], NEW stored \in [File -> Time]
    PROVE  Filled(mine, stored) \in [File -> Time]
BY DEF Filled

\* The snapshot written has the types of what is in memory.
LEMMA WrittenSnapshotType ==
    ASSUME ItemsTypeOK, NEW gone, NEW kn \in [File -> Time], NEW rs \in SUBSET Part
    PROVE  Snapshot(gone, kn, rs) \in [files : SUBSET File, know : [File -> Time],
                                       change : [File -> Time], refs : SUBSET Part]
BY TimesAreNatural DEF ItemsTypeOK, Snapshot

\* Counting a CU keeps the types of the count and of the snapshot.
LEMMA CountBuiltType ==
    ASSUME ItemsTypeOK, SnapshotTypeOK, RequestTypeOK,
           NEW gone, NEW kn \in [File -> Time], NEW rs \in SUBSET Part,
           CountBuilt(gone, kn, rs)
    PROVE  nbuilt' \in Nat /\ SnapshotTypeOK'
<1>1. nbuilt' \in Nat
  BY DEF CountBuilt, RequestTypeOK
<1>2. snap' = snap \/ snap' = Snapshot(gone, kn, rs)
  BY DEF CountBuilt
<1>3. Snapshot(gone, kn, rs) \in [files : SUBSET File, know : [File -> Time],
                                  change : [File -> Time], refs : SUBSET Part]
  BY WrittenSnapshotType
<1> HIDE DEF Snapshot
<1> QED
  BY <1>1, <1>2, <1>3 DEF SnapshotTypeOK

-----------------------------------------------------------------------------
(* Types: one lemma for each action that changes more than one variable of *)
(* the server.                                                             *)

LEMMA InitTypes == Init => TypeOK
<1> SUFFICES ASSUME Init PROVE TypeOK
  OBVIOUS
<1> USE TimesAreNatural DEF Init
<1>1. Gap + 2 \in Gap + 2..MaxTime /\ 1 \in Time
  BY ClockAssumption DEF Time
<1>2. WorldTypeOK
  BY <1>1 DEF WorldTypeOK, Buffer, NoBuffers
<1>3. SnapshotTypeOK
  BY DEF SnapshotTypeOK, NoSnapshot, NoTimes
<1>4. ItemsTypeOK
  BY DEF ItemsTypeOK, NoTimes
<1>5. ContentTypeOK
  BY DEF ContentTypeOK, Buffer, NoBuffers
<1>6. RequestTypeOK
  BY DEF RequestTypeOK, NoTimes, NoRequest, NoParse
<1> QED
  BY <1>2, <1>3, <1>4, <1>5, <1>6 DEF TypeOK

\* The client and the other programs write files, and nothing of the server.
LEMMA EnvironmentTypes ==
    ASSUME TypeOK, NEW f \in File,
           \/ DiskEdit(f) \/ DiskRemove(f) \/ DiskMoveBack(f)
           \/ UserEdit(f) \/ UserRevert(f) \/ UserSave(f)
    PROVE  TypeOK'
<1>1. UNCHANGED <<snap, items, refs, buffers, open, pc, request>>
  BY DEF DiskEdit, DiskRemove, DiskMoveBack, UserEdit, UserRevert, UserSave
<1>2. SnapshotTypeOK' /\ ItemsTypeOK' /\ ContentTypeOK' /\ RequestTypeOK'
  BY <1>1 DEF TypeOK, SnapshotTypeOK, ItemsTypeOK, ContentTypeOK, RequestTypeOK, items, buffers,
            request
<1> USE TimesAreNatural, ClockAssumption DEF TypeOK, WorldTypeOK
<1>3. clock \in Time /\ clock + 0 \in Nat
  BY DEF Time
<1>4. WorldTypeOK'
  <2>1. CASE DiskEdit(f)
    <3>1. PICK lag \in 0..MaxLag : mtime' = [mtime EXCEPT ![f] = clock - lag]
      BY <2>1 DEF DiskEdit
    <3>2. clock - lag \in Time
      BY <1>3 DEF Time
    <3>3. edits' \in Text /\ clock' \in Gap + 2..MaxTime
      BY <2>1 DEF DiskEdit, Text
    <3> QED
      BY <2>1, <3>1, <3>2, <3>3 DEF DiskEdit
  <2>2. CASE DiskRemove(f)
    <3>1. [text |-> disk[f], time |-> mtime[f]] \in Buffer
      BY <2>2 DEF DiskRemove, Buffer
    <3> QED
      BY <2>2, <3>1 DEF DiskRemove
  <2>3. CASE DiskMoveBack(f)
    <3>1. moved[f].text \in Text /\ moved[f].time \in Time /\ NoBuffer \in Buffer
      BY <2>3 DEF DiskMoveBack, Buffer
    <3> QED
      BY <2>3, <3>1 DEF DiskMoveBack
  <2>4. CASE UserEdit(f)
    BY <2>4 DEF UserEdit, Text
  <2>5. CASE UserRevert(f)
    BY <2>5 DEF UserRevert
  <2>6. CASE UserSave(f)
    BY <2>6, <1>3 DEF UserSave
  <2> QED
    BY <2>1, <2>2, <2>3, <2>4, <2>5, <2>6
<1> QED
  BY <1>2, <1>4 DEF TypeOK

\* A build list stays within what was on it and what is added.
LEMMA BuildListType ==
    ASSUME NEW L \in SUBSET CUs, NEW C \in SUBSET CUs, NEW l \in AddedToBuildList(L, C)
    PROVE  l \in SUBSET CUs
BY DEF AddedToBuildList

\* The memory of a server that has just started
LEMMA ServerStartsTypes ==
    ASSUME ServerStarts
    PROVE  ItemsTypeOK' /\ ContentTypeOK' /\ RequestTypeOK'
<1> USE TimesAreNatural DEF ServerStarts
<1>1. ItemsTypeOK'
  BY DEF ItemsTypeOK, NoTimes
<1>2. ContentTypeOK'
  BY DEF ContentTypeOK, Buffer, NoBuffers
<1>3. RequestTypeOK'
  BY DEF RequestTypeOK, NoTimes, NoRequest, NoParse
<1> QED
  BY <1>1, <1>2, <1>3

LEMMA StopTypes ==
    ASSUME TypeOK, Exit \/ Crash
    PROVE  TypeOK'
<1>1. ItemsTypeOK' /\ ContentTypeOK' /\ RequestTypeOK'
  BY ServerStartsTypes DEF Exit, Crash
<1>2. WorldTypeOK'
  BY DEF Exit, Crash, TypeOK, WorldTypeOK
<1>3. SnapshotTypeOK'
  <2>1. CASE snap' = snap
    BY <2>1 DEF TypeOK, SnapshotTypeOK
  <2>2. CASE snap' = Snapshot(deleted, [f \in File |-> IF Held(f) THEN 0 ELSE know[f]], refs)
    <3>1. [f \in File |-> IF Held(f) THEN 0 ELSE know[f]] \in [File -> Time]
      BY TimesAreNatural DEF TypeOK, ItemsTypeOK
    <3> QED
      BY <2>2, <3>1, WrittenSnapshotType DEF TypeOK, ContentTypeOK, SnapshotTypeOK
  <2> QED
    BY <2>1, <2>2 DEF Exit, Crash
<1> QED
  BY <1>1, <1>2, <1>3 DEF TypeOK

LEMMA BeginRequestTypes ==
    ASSUME TypeOK, NEW f \in Asked, NEW op \in Ops, BeginRequest(f, op)
    PROVE  TypeOK'
<1> USE TimesAreNatural, ClockAssumption, FilesAssumption
<1>1. WorldTypeOK' /\ SnapshotTypeOK'
  BY DEF TypeOK, WorldTypeOK, SnapshotTypeOK, BeginRequest, outside
<1>2. clock \in Time /\ ChangeTimeNow \in Time
  BY DEF TypeOK, WorldTypeOK, ChangeTimeNow, Time
<1>3. \A g \in File : buf'[g] \in Buffer
  <2> SUFFICES ASSUME NEW g \in File PROVE buf'[g] \in Buffer
    OBVIOUS
  <2>1. buf'[g] = IF client[g] # NoText THEN Preloaded(g) ELSE NoBuffer
    BY DEF BeginRequest
  <2>2. CASE client[g] # NoText
    <3>1. client[g] \in Text /\ buf[g] \in Buffer
      BY <2>2 DEF TypeOK, WorldTypeOK, ContentTypeOK
    <3>2. [text |-> client[g], time |-> clock] \in Buffer
      BY <1>2, <3>1 DEF Buffer
    <3> QED
      BY <2>1, <2>2, <3>1, <3>2 DEF Preloaded
  <2> QED
    BY <2>1, <2>2 DEF Buffer
<1>4. ItemsTypeOK'
  <2>1. snap.files \subseteq File /\ snap.know \in [File -> Time] /\ snap.change \in [File -> Time]
    BY DEF TypeOK, SnapshotTypeOK
  <2>2. know' \in [File -> Time] /\ change' \in [File -> Time]
    BY <2>1, FilledType DEF TypeOK, ItemsTypeOK, BeginRequest
  <2>3. letGo' \in [File -> Time]
    BY <1>2 DEF TypeOK, ItemsTypeOK, BeginRequest
  <2>4. table' \subseteq File /\ deleted' \subseteq File
    BY <2>1 DEF TypeOK, ItemsTypeOK, BeginRequest
  <2> QED
    BY <2>2, <2>3, <2>4 DEF TypeOK, ItemsTypeOK, BeginRequest
<1>5. ContentTypeOK'
  <2>1. refs' \subseteq refs \cup snap.refs
    BY DEF BeginRequest, Without
  <2>2. refs' \subseteq Part
    BY <2>1 DEF TypeOK, ContentTypeOK, SnapshotTypeOK
  <2>3. buf' \in [File -> Buffer]
    BY <1>3 DEF BeginRequest
  <2> QED
    BY <2>2, <2>3 DEF TypeOK, ContentTypeOK, BeginRequest
<1>6. RequestTypeOK'
  <2>1. toBuild' \in SUBSET CUs
    BY BuildListType DEF BeginRequest, BuiltAgain
  <2>2. req' \in [file : File \cup {NoFile}, op : Ops \cup {"query"}, wasOpen : BOOLEAN]
    BY DEF BeginRequest, TypeOK, ContentTypeOK
  <2> QED
    BY <2>1, <2>2 DEF BeginRequest, TypeOK, RequestTypeOK
<1> QED
  BY <1>1, <1>4, <1>5, <1>6 DEF TypeOK

LEMMA ScanTypes ==
    ASSUME TypeOK, Scan
    PROVE  TypeOK'
<1> USE TimesAreNatural
<1>1. WorldTypeOK' /\ SnapshotTypeOK' /\ RequestTypeOK'
  BY DEF TypeOK, WorldTypeOK, SnapshotTypeOK, RequestTypeOK, Scan, outside, request
<1>2. ContentTypeOK'
  BY DEF TypeOK, ContentTypeOK, Scan, Without, buffers
<1>3. ItemsTypeOK'
  <2>1. CASE ~open
    BY <2>1 DEF TypeOK, ItemsTypeOK, Scan
  <2>2. CASE open
    <3> DEFINE onDisk  == {c \in CUs : disk[c] # NoText}
               changed == {g \in table : scanTime[g] # 0 /\ disk[g] # NoText
                                           /\ ChangedAfter(mtime[g], scanTime[g])}
               start   == IF ~req.wasOpen THEN onDisk ELSE changed
               read    == ScannedFrom(start)
               found   == UNION {ScanOf(g) : g \in read}
               missing == IF ~req.wasOpen THEN {c \in CUs \cap table : c \notin onDisk} ELSE {}
    <3>1. start \subseteq File /\ missing \subseteq File
      BY DEF TypeOK, ItemsTypeOK, File
    <3>2. read \subseteq File /\ \A g \in File : ScanOf(g) \in SUBSET Headers
      BY <3>1, ScannedFilesType
    <3>3. found \subseteq File
      BY <3>2 DEF File
    <3>4. clock \in Time
      BY ClockAssumption DEF TypeOK, WorldTypeOK, Time
    <3>5. /\ scanTime' = [g \in File |-> IF g \in read THEN clock ELSE scanTime[g]]
          /\ scanned' = [g \in File |-> IF g \in read THEN ScanOf(g) ELSE scanned[g]]
          /\ table' = table \cup read \cup found
          /\ deleted' = (deleted \ (read \cup found)) \cup missing
          /\ UNCHANGED <<know, change, letGo>>
      BY <2>2 DEF Scan
    <3> HIDE DEF onDisk, changed, start, read, found, missing
    <3>6. scanTime' \in [File -> Time] /\ scanned' \in [File -> SUBSET Headers]
      BY <3>2, <3>4, <3>5 DEF TypeOK, ItemsTypeOK
    <3>7. table' \subseteq File /\ deleted' \subseteq File
      BY <3>1, <3>2, <3>3, <3>5 DEF TypeOK, ItemsTypeOK
    <3> QED
      BY <3>5, <3>6, <3>7 DEF TypeOK, ItemsTypeOK
  <2> QED
    BY <2>1, <2>2
<1> QED
  BY <1>1, <1>2, <1>3 DEF TypeOK

LEMMA RemoveChangedTypes ==
    ASSUME TypeOK, RemoveChanged
    PROVE  TypeOK'
<1> USE TimesAreNatural
<1>1. WorldTypeOK' /\ SnapshotTypeOK'
  BY DEF TypeOK, WorldTypeOK, SnapshotTypeOK, RemoveChanged, outside
<1>2. ContentTypeOK'
  BY DEF TypeOK, ContentTypeOK, RemoveChanged, Without, buffers
<1>3. RequestTypeOK'
  BY IncludeEdgesType DEF TypeOK, RequestTypeOK, RemoveChanged
<1>4. ItemsTypeOK'
  <2>1. \A f \in File : ContentTimeOf(f) \in Time /\ change[f] \in Time
    BY ChangeTimesType DEF TypeOK, ItemsTypeOK
  <2> DEFINE known     == Headers \cap table
             changed   == {h \in known : change[h] # 0 /\ change[h] < ContentTimeOf(h)}
             includers == {h \in known \ changed : Below(graph', changed, h) # {}}
             own       == [h \in File |-> IF h \in changed \/ (h \in known /\ change[h] = 0)
                                          THEN ContentTimeOf(h) ELSE change[h]]
  <2>2. PICK met \in [includers -> changed] :
             change' = [h \in File |-> IF h \in includers /\ own[h] < ContentTimeOf(met[h])
                                       THEN ContentTimeOf(met[h]) ELSE own[h]]
    BY DEF RemoveChanged
  <2>3. changed \subseteq File /\ own \in [File -> Time]
    BY <2>1 DEF File
  <2> HIDE DEF known, changed, includers, own
  <2>4. \A h \in includers : ContentTimeOf(met[h]) \in Time
    BY <2>1, <2>3
  <2>5. change' \in [File -> Time]
    BY <2>2, <2>3, <2>4
  <2> QED
    BY <2>5 DEF TypeOK, ItemsTypeOK, RemoveChanged
<1> QED
  BY <1>1, <1>2, <1>3, <1>4 DEF TypeOK

LEMMA CollectTypes ==
    ASSUME TypeOK, Collect
    PROVE  TypeOK'
<1>1. WorldTypeOK' /\ SnapshotTypeOK' /\ ItemsTypeOK'
  BY DEF TypeOK, WorldTypeOK, SnapshotTypeOK, ItemsTypeOK, Collect, outside, items
<1>2. ContentTypeOK'
  BY DEF TypeOK, ContentTypeOK, Collect, Without, buffers
<1>3. RequestTypeOK'
  <2> DEFINE times == [f \in File |-> ChangeTimeOf(f)]
             stale == {c \in CUs \cap table : KnowledgeIsOutOfDate(graph, times, c)}
             f     == req.file
             heldCUs  == IF req.wasOpen THEN {c \in stale \ deleted : Held(c)} ELSE {}
             toAnswer == IF ~RequiresProcessing(req.op) /\ ~AnsweredWithoutReferences(req.op)
                         THEN {f} \cap stale ELSE {}
             shared   == ({f} \cup IncludeClosure(File, graph, f)) \cap Headers
             siblings == IF f # NoFile /\ open /\ ~AnsweredWithoutReferences(req.op)
                         THEN {c \in stale \ {f} : IncludeClosure(File, graph, c) \cap shared # {}}
                         ELSE {}
  <2>1. heldCUs \subseteq CUs /\ toAnswer \subseteq CUs /\ siblings \subseteq CUs
    OBVIOUS
  <2>2. PICK l1 \in AddedToBuildList(toBuild, heldCUs) :
        \E l2 \in AddedToBuildList(l1, toAnswer) :
            toBuild' \in AddedToBuildList(l2, siblings)
    BY DEF Collect
  <2>3. PICK l2 \in AddedToBuildList(l1, toAnswer) : toBuild' \in AddedToBuildList(l2, siblings)
    BY <2>2
  <2>4. asked' \in [File -> Time]
    BY ChangeTimesType DEF Collect, TypeOK
  <2>5. strip' \in BOOLEAN
    BY DEF Collect, ParsesRequestFile
  <2> HIDE DEF times, stale, f, heldCUs, toAnswer, shared, siblings
  <2>6. toBuild \in SUBSET CUs /\ heldCUs \in SUBSET CUs /\ toAnswer \in SUBSET CUs
        /\ siblings \in SUBSET CUs
    BY <2>1 DEF TypeOK, RequestTypeOK
  <2>7. l1 \in SUBSET CUs
    BY <2>6, BuildListType
  <2>8. l2 \in SUBSET CUs
    BY <2>3, <2>6, <2>7, BuildListType
  <2>9. toBuild' \in SUBSET CUs
    BY <2>3, <2>6, <2>8, BuildListType
  <2> QED
    BY <2>4, <2>5, <2>9 DEF Collect, TypeOK, RequestTypeOK
<1> QED
  BY <1>1, <1>2, <1>3 DEF TypeOK

LEMMA BuildCUTypes ==
    ASSUME TypeOK, NEW c \in CUs, BuildCU(c)
    PROVE  TypeOK'
<1> USE TimesAreNatural, ClockAssumption
<1>1. WorldTypeOK'
  BY DEF TypeOK, WorldTypeOK, BuildCU, outside
<1>2. ContentTypeOK'
  BY DEF TypeOK, ContentTypeOK, BuildCU, Without, buffers
<1>3. ItemsTypeOK'
  BY DEF TypeOK, ItemsTypeOK, BuildCU, File
<1>4. CASE Exists(c)
  <2>1. SnapshotTypeOK'
    BY <1>4 DEF TypeOK, SnapshotTypeOK, BuildCU
  <2>2. clock \in Time /\ c \in File
    BY DEF TypeOK, WorldTypeOK, Time, File
  <2>3. RequestTypeOK'
    BY <1>4, <2>2 DEF TypeOK, RequestTypeOK, BuildCU
  <2> QED
    BY <1>1, <1>2, <1>3, <2>1, <2>3 DEF TypeOK
<1>5. CASE ~Exists(c)
  <2>1. CountBuilt(deleted', know, refs') /\ refs' \in SUBSET Part /\ know \in [File -> Time]
    BY <1>2, <1>5 DEF BuildCU, TypeOK, ItemsTypeOK, ContentTypeOK
  <2>2. nbuilt' \in Nat /\ SnapshotTypeOK'
    BY <2>1, CountBuiltType DEF TypeOK
  <2>3. RequestTypeOK'
    BY <1>5, <2>2 DEF TypeOK, RequestTypeOK, BuildCU
  <2> QED
    BY <1>1, <1>2, <1>3, <2>2, <2>3 DEF TypeOK
<1> QED
  BY <1>4, <1>5

LEMMA ParseTypes ==
    ASSUME TypeOK, Parse
    PROVE  TypeOK'
<1> DEFINE f == parse.file
<1>1. f \in File /\ Openable(f) /\ parse.time \in Time
  BY DEF Parse, TypeOK, RequestTypeOK
<1>2. WorldTypeOK' /\ SnapshotTypeOK'
  BY DEF TypeOK, WorldTypeOK, SnapshotTypeOK, Parse, outside
<1>3. RequestTypeOK'
  BY DEF TypeOK, RequestTypeOK, Parse, request
<1>4. Emits(f, parse.time) \subseteq Part
  BY <1>1, EmittedPartsType DEF TypeOK
<1>6. ReachNow(f) \subseteq File /\ \A g \in ReachNow(f) : Openable(g)
  BY <1>1, ReachedFilesExist DEF TypeOK
<1>8. WithOpened(ReachNow(f)) \in [File -> Buffer]
  BY <1>6, WithOpenedType DEF TypeOK
<1>5. ContentTypeOK'
  BY <1>4, <1>8 DEF TypeOK, ContentTypeOK, Parse, Renewed
<1>7. ItemsTypeOK'
  BY <1>6 DEF TypeOK, ItemsTypeOK, Parse
<1> QED
  BY <1>2, <1>3, <1>5, <1>7 DEF TypeOK

LEMMA AfterParseTypes ==
    ASSUME TypeOK, EndParse \/ ParseFails
    PROVE  TypeOK'
<1>1. PICK kn \in [File -> Time] : pc \in {"parse", "parsed"} /\ AfterParse(kn)
  BY DEF EndParse, ParseFails, TypeOK, RequestTypeOK, ItemsTypeOK
<1>2. WorldTypeOK'
  BY <1>1 DEF TypeOK, WorldTypeOK, AfterParse, outside
<1>3. ContentTypeOK'
  BY <1>1 DEF TypeOK, ContentTypeOK, AfterParse, buffers
<1>4. ItemsTypeOK'
  BY <1>1 DEF TypeOK, ItemsTypeOK, AfterParse
<1>5. nbuilt' \in Nat /\ SnapshotTypeOK'
  <2>1. CASE parse.then = "answer"
    BY <1>1, <2>1 DEF TypeOK, RequestTypeOK, SnapshotTypeOK, AfterParse
  <2>2. CASE parse.then # "answer"
    BY <1>1, <2>2, CountBuiltType DEF AfterParse, TypeOK, ContentTypeOK
  <2> QED
    BY <2>1, <2>2
<1>6. RequestTypeOK'
  BY <1>1, <1>5, TimesAreNatural DEF TypeOK, RequestTypeOK, AfterParse, NoParse
<1> QED
  BY <1>2, <1>3, <1>4, <1>5, <1>6 DEF TypeOK

\* The steps of a request that move it on to its next phase
LEMMA PhaseTypes ==
    ASSUME TypeOK, CollectAll \/ ProcessFile \/ SinglePass \/ EndRequest
    PROVE  TypeOK'
<1> USE TimesAreNatural, ClockAssumption
<1>1. SnapshotTypeOK' /\ ItemsTypeOK'
  BY DEF TypeOK, SnapshotTypeOK, ItemsTypeOK, items, CollectAll, ProcessFile, SinglePass,
         EndRequest
<1>2. WorldTypeOK'
  BY DEF TypeOK, WorldTypeOK, outside, CollectAll, ProcessFile, SinglePass, EndRequest
<1>3. clock \in Time
  BY DEF TypeOK, WorldTypeOK, Time
<1>4. ContentTypeOK' /\ RequestTypeOK'
  <2>1. CASE CollectAll
    <3>1. toBuild' \subseteq CUs
      BY <2>1 DEF CollectAll
    <3> QED
      BY <2>1, <3>1 DEF CollectAll, TypeOK, ContentTypeOK, RequestTypeOK, buffers
  <2>2. CASE ProcessFile
    <3>1. ContentTypeOK'
      <4>1. CASE loaded' = loaded
        BY <2>2, <4>1 DEF ProcessFile, TypeOK, ContentTypeOK
      <4>2. CASE Openable(req.file) /\ req.file # NoFile /\ loaded' = WithOpened({req.file})
        <5>1. {req.file} \in SUBSET File
          BY <4>2 DEF TypeOK, RequestTypeOK
        <5>2. WithOpened({req.file}) \in [File -> Buffer]
          BY <4>2, <5>1, WithOpenedType DEF TypeOK
        <5> QED
          BY <2>2, <4>2, <5>2 DEF ProcessFile, TypeOK, ContentTypeOK
      <4> QED
        BY <2>2, <4>1, <4>2 DEF ProcessFile
    <3>2. RequestTypeOK'
      BY <2>2 DEF ProcessFile, request, TypeOK, RequestTypeOK
    <3> QED
      BY <3>1, <3>2
  <2>3. CASE SinglePass
    BY <2>3, <1>3 DEF SinglePass, TypeOK, ContentTypeOK, RequestTypeOK, buffers
  <2>4. CASE EndRequest
    BY <2>4 DEF EndRequest, TypeOK, ContentTypeOK, RequestTypeOK, NoRequest, NoTimes, NoBuffers,
                Buffer
  <2> QED
    BY <2>1, <2>2, <2>3, <2>4
<1> QED
  BY <1>1, <1>2, <1>4 DEF TypeOK

\* Every step of the system keeps every variable within its type: no parse puts a
\* reference in the table that comes from no text, and no cap, clock or restart
\* leads outside.
THEOREM TypeCorrect == Spec => []TypeOK
<1>1. TypeOK /\ [Next]_vars => TypeOK'
  <2> SUFFICES ASSUME TypeOK, [Next]_vars PROVE TypeOK'
    OBVIOUS
  <2>1. ASSUME NEW f \in Asked, NEW op \in Ops, BeginRequest(f, op) PROVE TypeOK'
    BY <2>1, BeginRequestTypes
  <2>2. CASE Server
    BY <2>2, ScanTypes, RemoveChangedTypes, CollectTypes, BuildCUTypes, ParseTypes,
       AfterParseTypes, PhaseTypes DEF Server
  <2>3. CASE Environment
    <3>1. ASSUME NEW f \in File,
                 \/ DiskEdit(f) \/ DiskRemove(f) \/ DiskMoveBack(f)
                 \/ UserEdit(f) \/ UserRevert(f) \/ UserSave(f)
          PROVE  TypeOK'
      BY <3>1, EnvironmentTypes
    <3>2. CASE Tick
      <4>1. UNCHANGED <<disk, mtime, moved, client, edits, restarts, snap, items, refs,
                        buffers, open, pc, request>> /\ clock' = clock + 1 /\ clock < MaxTime
        BY <3>2 DEF Tick, outside
      <4>2. WorldTypeOK'
        BY <4>1, ClockAssumption DEF TypeOK, WorldTypeOK
      <4>3. SnapshotTypeOK' /\ ItemsTypeOK' /\ ContentTypeOK' /\ RequestTypeOK'
        BY <4>1 DEF TypeOK, SnapshotTypeOK, ItemsTypeOK, ContentTypeOK, RequestTypeOK,
                    items, buffers, request
      <4> QED
        BY <4>2, <4>3 DEF TypeOK
    <3>3. CASE Exit \/ Crash
      BY <3>3, StopTypes
    <3> QED
      BY <2>3, <3>1, <3>2, <3>3 DEF Environment
  <2>4. CASE UNCHANGED vars
    BY <2>4 DEF vars, outside, items, buffers, request, TypeOK, WorldTypeOK, SnapshotTypeOK,
                ItemsTypeOK, ContentTypeOK, RequestTypeOK
  <2> QED
    BY <2>1, <2>2, <2>3, <2>4 DEF Next
<1> QED
  BY <1>1, InitTypes, PTL DEF Spec

-----------------------------------------------------------------------------
(* Changes show                                                            *)
(*                                                                         *)
(* ChangesShow alone is not inductive.  References also wait in the        *)
(* snapshot, a file that was moved away may come back with an older time   *)
(* than any other, a buffer may have a text that is not on disk any more,  *)
(* and an edit shows only because the knowledge time of every reference is *)
(* one the clock has passed.                                               *)

\* If r was not read from this text of g, the time shows it.
ShowsIn(r, g, text, time) == r.saw[g] # text => PrerequisiteChangedAfter(time, r.at)

Parts == refs \cup snap.refs

TimesInv == (\A r \in Parts : r.at <= clock) /\ parse.time <= clock

OnDiskInv ==
    \A f \in File \ Holdable :
        client[f] = NoText /\ buf[f] = NoBuffer /\ (moved[f] # NoBuffer => disk[f] = NoText)

\* Between requests no buffer has a text that a parse loaded, and when no file
\* changes during a request they have what is on disk.
BuffersInv ==
    /\ pc = "idle" => \A f \in File : ~IsLoaded(f)
    /\ EditPhases = {"idle"} =>
          \A f \in File : IsLoaded(f) =>
                OnDisk(f) /\ loaded[f].text = disk[f] /\ loaded[f].time = mtime[f]

\* The texts of r that changes show of, those that ChangesShow is about among them
Watched(r) ==
    IF EditPhases = {"idle"} THEN DOMAIN r.saw \ Holdable
                             ELSE DOMAIN r.saw \ (Holdable \cup r.earlier)

ShowInv ==
    \A r \in Parts : \A g \in Watched(r) :
        /\ ShowsIn(r, g, disk[g], mtime[g])
        /\ moved[g] # NoBuffer => ShowsIn(r, g, moved[g].text, moved[g].time)
        /\ IsLoaded(g) => ShowsIn(r, g, loaded[g].text, loaded[g].time)

ChangesInv == TimesInv /\ OnDiskInv /\ BuffersInv /\ ShowInv

LEMMA ChangesInvImplies ==
    ASSUME TypeOK, ChangesInv
    PROVE  ChangesShow
<1> SUFFICES ASSUME NEW r \in refs, NEW g \in DOMAIN r.saw \ (Holdable \cup r.earlier),
                    r.saw[g] # Reads(g)
             PROVE  PrerequisiteChangedAfter(ModificationTime(g), r.at)
  BY DEF ChangesShow
<1>4. g \in Watched(r)
  BY DEF Watched
<1>1. g \in File \ Holdable
  BY DEF TypeOK, ContentTypeOK, Part, Watched
<1>2. ~Held(g)
  BY <1>1 DEF ChangesInv, OnDiskInv, Held
<1>3. /\ ShowsIn(r, g, disk[g], mtime[g])
      /\ IsLoaded(g) => ShowsIn(r, g, loaded[g].text, loaded[g].time)
  BY <1>4 DEF ChangesInv, ShowInv, Parts
<1> QED
  BY <1>2, <1>3 DEF ShowsIn, Reads, ModificationTime

LEMMA InitChangesInv == Init => ChangesInv
<1> SUFFICES ASSUME Init PROVE ChangesInv
  OBVIOUS
<1>1. Parts = {} /\ parse.time = 0 /\ clock = Gap + 2
  BY DEF Init, Parts, NoSnapshot, NoParse
<1>2. TimesInv /\ ShowInv
  BY <1>1, TimesAreNatural DEF TimesInv, ShowInv
<1>3. OnDiskInv /\ BuffersInv
  BY DEF Init, OnDiskInv, BuffersInv, IsLoaded, NoBuffers
<1> QED
  BY <1>2, <1>3 DEF ChangesInv

\* What a buffer has after files have been opened: of a file that was not open
\* before, what is on disk.
LEMMA OpenedFromDisk ==
    ASSUME TypeOK, NEW S, NEW f \in File, ~Held(f)
    PROVE  /\ WithOpened(S)[f] \in {loaded[f], NoBuffer, [text |-> disk[f], time |-> mtime[f]]}
           /\ IsLoaded(f) => WithOpened(S)[f] = loaded[f]
<1>1. IsLoaded(f) => [text |-> Reads(f), time |-> ModificationTime(f)] = loaded[f]
  <2>1. loaded[f] \in Buffer
    BY DEF TypeOK, ContentTypeOK
  <2> QED
    BY <2>1 DEF Buffer, IsLoaded, Reads, ModificationTime
<1>2. ~IsLoaded(f) => Reads(f) = disk[f] /\ ModificationTime(f) = mtime[f]
  BY DEF Reads, ModificationTime
<1> QED
  BY <1>1, <1>2 DEF WithOpened

LEMMA BuffersOpened ==
    ASSUME TypeOK, BuffersInv, NEW S \in SUBSET File, \A f \in S : Openable(f),
           loaded' = WithOpened(S), UNCHANGED <<disk, mtime>>, pc' # "idle"
    PROVE  BuffersInv'
<1> SUFFICES ASSUME EditPhases = {"idle"}, NEW f \in File, IsLoaded(f)'
             PROVE  OnDisk(f) /\ loaded'[f].text = disk[f] /\ loaded'[f].time = mtime[f]
  BY DEF BuffersInv, OnDisk
<1>1. CASE loaded'[f] = loaded[f]
  BY <1>1 DEF BuffersInv, IsLoaded
<1>2. CASE loaded'[f] # loaded[f]
  <2>1. f \in S /\ ~Held(f)
    BY <1>2 DEF WithOpened
  <2>2. ~IsLoaded(f)
    BY <1>2, <2>1, OpenedFromDisk
  <2> QED
    BY <2>1, <2>2 DEF WithOpened, Openable, Reads, ModificationTime, OnDisk
<1> QED
  BY <1>1, <1>2

LEMMA BuffersKept ==
    ASSUME TypeOK, BuffersInv, [Next]_vars
    PROVE  BuffersInv'
<1>1. CASE Parse
  <2>1. /\ parse.file \in File /\ Openable(parse.file) /\ pc' # "idle"
        /\ loaded' = WithOpened(ReachNow(parse.file)) /\ UNCHANGED <<disk, mtime>>
    BY <1>1 DEF Parse, TypeOK, RequestTypeOK, outside
  <2>2. ReachNow(parse.file) \subseteq File /\ \A f \in ReachNow(parse.file) : Openable(f)
    BY <2>1, ReachedFilesExist DEF TypeOK
  <2> QED
    BY <2>1, <2>2, BuffersOpened
<1>2. CASE ProcessFile
  <2>1. UNCHANGED <<disk, mtime>> /\ pc' # "idle"
    BY <1>2 DEF ProcessFile, outside
  <2>2. CASE UNCHANGED loaded
    BY <2>1, <2>2 DEF BuffersInv, IsLoaded, OnDisk
  <2>3. CASE req.file # NoFile /\ Openable(req.file) /\ loaded' = WithOpened({req.file})
    <3>1. {req.file} \subseteq File
      BY <2>3 DEF TypeOK, RequestTypeOK
    <3> QED
      BY <2>1, <2>3, <3>1, BuffersOpened
  <2> QED
    BY <1>2, <2>2, <2>3 DEF ProcessFile
<1>3. CASE EndRequest \/ Exit \/ Crash
  BY <1>3 DEF EndRequest, Exit, Crash, ServerStarts, NoBuffers, BuffersInv, IsLoaded
<1>4. ASSUME NEW f \in File, \/ DiskEdit(f) \/ DiskRemove(f) \/ DiskMoveBack(f)
                             \/ UserEdit(f) \/ UserRevert(f) \/ UserSave(f)
      PROVE  BuffersInv'
  <2>1. UNCHANGED <<loaded, pc>> /\ (EditPhases = {"idle"} => pc = "idle")
    BY <1>4 DEF DiskEdit, DiskRemove, DiskMoveBack, UserEdit, UserRevert, UserSave, buffers
  <2> QED
    BY <2>1 DEF BuffersInv, IsLoaded
<1>5. CASE ParseFails \/ EndParse
  <2>1. pc' # "idle"
    BY <1>5 DEF ParseFails, EndParse, AfterParse, TypeOK, RequestTypeOK
  <2>2. UNCHANGED <<disk, mtime, loaded>>
    BY <1>5 DEF ParseFails, EndParse, AfterParse, outside, buffers
  <2> QED
    BY <2>1, <2>2 DEF BuffersInv, IsLoaded, OnDisk
<1>6. CASE \/ \E f \in Asked, op \in Ops : BeginRequest(f, op)
           \/ Scan \/ RemoveChanged \/ Collect \/ (\E c \in CUs : BuildCU(c))
           \/ CollectAll \/ SinglePass \/ Tick \/ UNCHANGED vars
  <2>1. UNCHANGED <<disk, mtime, loaded>>
    BY <1>6, Zenon DEF BeginRequest, Scan, RemoveChanged, Collect, BuildCU, CollectAll,
                       SinglePass, Tick, buffers, outside, vars
  <2>2. pc' = "idle" => pc = "idle"
    BY <1>6 DEF BeginRequest, Scan, RemoveChanged, Collect, BuildCU, CollectAll,
                SinglePass, Tick, vars
  <2> QED
    BY <2>1, <2>2 DEF BuffersInv, IsLoaded, OnDisk
<1> QED
  BY <1>1, <1>2, <1>3, <1>4, <1>5, <1>6 DEF Next, Server, Environment

\* The times that are compared are numbers.
LEMMA PartTimes ==
    ASSUME TypeOK
    PROVE  /\ clock \in Nat /\ parse.time \in Nat
           /\ \A r \in Parts : r.at \in Nat /\ DOMAIN r.saw \subseteq File
<1>1. clock \in Nat
  BY ClockAssumption DEF TypeOK, WorldTypeOK
<1>2. parse.time \in Nat
  BY TimesAreNatural DEF TypeOK, RequestTypeOK
<1>3. ASSUME NEW r \in Parts PROVE r.at \in Nat /\ DOMAIN r.saw \subseteq File
  <2>1. r \in Part
    BY <1>3 DEF TypeOK, ContentTypeOK, SnapshotTypeOK, Parts
  <2> QED
    BY <2>1, TimesAreNatural DEF Part
<1> QED
  BY <1>1, <1>2, <1>3

\* A step that leaves the files alone and adds no reference
LEMMA PartsKept ==
    ASSUME TypeOK, ChangesInv, TypeOK', BuffersInv',
           UNCHANGED <<disk, mtime, moved, client>>,
           Parts' \subseteq Parts, clock <= clock', parse'.time <= clock',
           \A f \in File \ Holdable :
                /\ buf'[f] = NoBuffer
                /\ loaded'[f] \in {loaded[f], NoBuffer, [text |-> disk[f], time |-> mtime[f]]}
    PROVE  ChangesInv'
<1>1. TimesInv'
  <2>1. clock' \in Nat
    BY ClockAssumption DEF TypeOK, WorldTypeOK
  <2> QED
    BY <2>1, PartTimes DEF ChangesInv, TimesInv
<1>2. OnDiskInv'
  BY DEF ChangesInv, OnDiskInv
<1>3. ShowInv'
  <2> SUFFICES ASSUME NEW r \in Parts, NEW g \in Watched(r)
               PROVE  /\ ShowsIn(r, g, disk[g], mtime[g])
                      /\ moved[g] # NoBuffer => ShowsIn(r, g, moved[g].text, moved[g].time)
                      /\ IsLoaded(g)' => ShowsIn(r, g, loaded'[g].text, loaded'[g].time)
    BY DEF ShowInv, ShowsIn, Watched, PrerequisiteChangedAfter, ChangedAfter
  <2>1. g \in File \ Holdable
    BY PartTimes DEF Watched
  <2>2. /\ ShowsIn(r, g, disk[g], mtime[g])
        /\ moved[g] # NoBuffer => ShowsIn(r, g, moved[g].text, moved[g].time)
        /\ IsLoaded(g) => ShowsIn(r, g, loaded[g].text, loaded[g].time)
    BY DEF ChangesInv, ShowInv
  <2>3. loaded'[g] \in {loaded[g], NoBuffer, [text |-> disk[g], time |-> mtime[g]]}
    BY <2>1
  <2> QED
    BY <2>2, <2>3 DEF IsLoaded
<1> QED
  BY <1>1, <1>2, <1>3 DEF ChangesInv

\* A write on disk gets a later time than every reference, although the file
\* system's clock lags, because the lag is less than the gap.
LEMMA DiskEditShows ==
    ASSUME TypeOK, TypeOK', ChangesInv, BuffersInv', NEW f \in File, DiskEdit(f)
    PROVE  ChangesInv'
<1>1. PICK lag \in 0..MaxLag : mtime' = [mtime EXCEPT ![f] = clock - lag]
  BY DEF DiskEdit
<1>2. /\ disk[f] # NoText /\ disk' = [disk EXCEPT ![f] = edits'] /\ clock' = clock + 1
      /\ UNCHANGED <<moved, client, buf, loaded, parse>> /\ Parts' = Parts
  BY DEF DiskEdit, request, buffers, Parts
<1>3. clock \in Int /\ parse.time \in Int /\ \A r \in Parts : r.at \in Nat
  BY PartTimes
<1>4. TimesInv'
  BY <1>2, <1>3 DEF ChangesInv, TimesInv
<1>5. OnDiskInv'
  BY <1>2 DEF ChangesInv, OnDiskInv, TypeOK, WorldTypeOK
<1>6. ShowInv'
  <2> SUFFICES ASSUME NEW r \in Parts, NEW g \in Watched(r)
               PROVE  /\ ShowsIn(r, g, disk'[g], mtime'[g])
                      /\ moved[g] # NoBuffer => ShowsIn(r, g, moved[g].text, moved[g].time)
                      /\ IsLoaded(g) => ShowsIn(r, g, loaded[g].text, loaded[g].time)
    BY <1>2 DEF ShowInv, ShowsIn, Watched, IsLoaded, PrerequisiteChangedAfter, ChangedAfter
  <2>1. CASE g = f
    <3>1. mtime'[f] = clock - lag /\ r.at <= clock
      BY <1>1 DEF TypeOK, WorldTypeOK, ChangesInv, TimesInv
    <3>2. ChangedAfter(mtime'[f], r.at)
      BY <1>3, <3>1, ClockAssumption DEF ChangedAfter
    <3> QED
      BY <2>1, <3>2 DEF ShowsIn, PrerequisiteChangedAfter, ChangesInv, ShowInv
  <2>2. CASE g # f
    <3>1. disk'[g] = disk[g] /\ mtime'[g] = mtime[g]
      BY <1>1, <1>2, <2>2, PartTimes DEF TypeOK, WorldTypeOK, Watched
    <3> QED
      BY <3>1 DEF ChangesInv, ShowInv
  <2> QED
    BY <2>1, <2>2
<1> QED
  BY <1>4, <1>5, <1>6 DEF ChangesInv

\* A file that is gone has no time, and comes back with the one it had.
LEMMA DiskMoveShows ==
    ASSUME TypeOK, TypeOK', ChangesInv, BuffersInv', NEW f \in File, DiskRemove(f) \/ DiskMoveBack(f)
    PROVE  ChangesInv'
<1>1. /\ UNCHANGED <<client, clock, buf, loaded, parse>> /\ Parts' = Parts
      /\ \/ /\ moved' = [moved EXCEPT ![f] = [text |-> disk[f], time |-> mtime[f]]]
            /\ disk' = [disk EXCEPT ![f] = NoText] /\ mtime' = [mtime EXCEPT ![f] = 0]
         \/ /\ moved[f] # NoBuffer /\ moved' = [moved EXCEPT ![f] = NoBuffer]
            /\ disk' = [disk EXCEPT ![f] = moved[f].text]
            /\ mtime' = [mtime EXCEPT ![f] = moved[f].time]
  BY DEF DiskRemove, DiskMoveBack, request, buffers, Parts
<1>2. TimesInv'
  BY <1>1 DEF ChangesInv, TimesInv
<1>3. OnDiskInv'
  BY <1>1 DEF ChangesInv, OnDiskInv, TypeOK, WorldTypeOK
<1>4. ShowInv'
  <2> SUFFICES ASSUME NEW r \in Parts, NEW g \in Watched(r)
               PROVE  /\ ShowsIn(r, g, disk'[g], mtime'[g])
                      /\ moved'[g] # NoBuffer => ShowsIn(r, g, moved'[g].text, moved'[g].time)
                      /\ IsLoaded(g) => ShowsIn(r, g, loaded[g].text, loaded[g].time)
    BY <1>1 DEF ShowInv, ShowsIn, Watched, IsLoaded, PrerequisiteChangedAfter, ChangedAfter
  <2>1. g \in File
    BY PartTimes DEF Watched
  <2>2. /\ ShowsIn(r, g, disk[g], mtime[g])
        /\ moved[g] # NoBuffer => ShowsIn(r, g, moved[g].text, moved[g].time)
        /\ IsLoaded(g) => ShowsIn(r, g, loaded[g].text, loaded[g].time)
    BY DEF ChangesInv, ShowInv
  <2>3. CASE g # f
    BY <1>1, <2>1, <2>2, <2>3 DEF TypeOK, WorldTypeOK
  <2>4. CASE g = f
    BY <1>1, <2>1, <2>2, <2>4 DEF TypeOK, WorldTypeOK, ShowsIn, PrerequisiteChangedAfter
  <2> QED
    BY <2>3, <2>4
<1> QED
  BY <1>2, <1>3, <1>4 DEF ChangesInv

\* What the user does to a file concerns only the files the client may hold.
LEMMA UserShows ==
    ASSUME TypeOK, TypeOK', ChangesInv, BuffersInv', NEW f \in File,
           UserEdit(f) \/ UserRevert(f) \/ UserSave(f)
    PROVE  ChangesInv'
<1>1. /\ UNCHANGED <<moved, buf, loaded, parse>> /\ Parts' = Parts /\ clock' = clock + Pace
      /\ \A g \in File : g # f => UNCHANGED <<disk[g], mtime[g], client[g]>>
  BY DEF UserEdit, UserRevert, UserSave, request, buffers, Parts, TypeOK, WorldTypeOK
<1>2. f \in Holdable
  BY DEF UserEdit, UserRevert, UserSave, ChangesInv, OnDiskInv
<1>3. clock \in Int /\ Pace \in Nat /\ parse.time \in Int /\ \A r \in Parts : r.at \in Nat
  BY PartTimes, TimesAreNatural
<1>4. TimesInv'
  BY <1>1, <1>3 DEF ChangesInv, TimesInv
<1>5. OnDiskInv'
  BY <1>1, <1>2 DEF ChangesInv, OnDiskInv
<1>6. ShowInv'
  <2> SUFFICES ASSUME NEW r \in Parts, NEW g \in Watched(r)
               PROVE  /\ ShowsIn(r, g, disk'[g], mtime'[g])
                      /\ moved[g] # NoBuffer => ShowsIn(r, g, moved[g].text, moved[g].time)
                      /\ IsLoaded(g) => ShowsIn(r, g, loaded[g].text, loaded[g].time)
    BY <1>1 DEF ShowInv, ShowsIn, Watched, IsLoaded, PrerequisiteChangedAfter, ChangedAfter
  <2>1. g \in File /\ g # f
    BY <1>2, PartTimes DEF Watched
  <2> QED
    BY <1>1, <2>1 DEF ChangesInv, ShowInv
<1> QED
  BY <1>4, <1>5, <1>6 DEF ChangesInv

\* A parse dates its references at the knowledge time.  What it reads is on disk
\* then, or was loaded before.
LEMMA ParseShows ==
    ASSUME TypeOK, TypeOK', ChangesInv, BuffersInv', Parse
    PROVE  ChangesInv'
<1> DEFINE f == parse.file
           new == Emits(f, parse.time)
<1>1. f \in File /\ Openable(f) /\ parse.time \in Time
  BY DEF Parse, TypeOK, RequestTypeOK
<1>2. /\ UNCHANGED <<disk, mtime, moved, client, clock, buf, parse>>
      /\ loaded' = WithOpened(ReachNow(f)) /\ Parts' \subseteq Parts \cup new
  BY DEF Parse, outside, request, Parts, Renewed
<1>3. ASSUME NEW r \in new
      PROVE  /\ r.at = parse.time
             /\ \A g \in DOMAIN r.saw : g \in File /\ Openable(g) /\ r.saw[g] = Reads(g)
             /\ \A g \in DOMAIN r.saw \ r.earlier : ~IsLoaded(g)
  <2>1. PICK h \in ReachNow(f) :
             r = [file |-> h, by |-> f, at |-> parse.time,
                  saw |-> [g \in Reached(IncludesNow, h) |-> Reads(g)],
                  earlier |-> {g \in Reached(IncludesNow, h) : IsLoaded(g)},
                  dated |-> \A g \in Reached(IncludesNow, h) \cap Headers : change[g] # 0]
    BY <1>3 DEF Emits, ReachNow
  <2>2. h \in File /\ Openable(h)
    BY <1>1, ReachedFilesExist DEF TypeOK
  <2>3. \A g \in Reached(IncludesNow, h) : g \in File /\ Openable(g)
    BY <2>2, ReachedFilesExist DEF ReachNow, TypeOK
  <2> QED
    BY <2>1, <2>3
<1>7. \A g \in File \ Holdable :
            loaded'[g] \in {loaded[g], NoBuffer, [text |-> disk[g], time |-> mtime[g]]}
  BY <1>2, OpenedFromDisk DEF ChangesInv, OnDiskInv, Held
<1> HIDE DEF f, new
<1>4. TimesInv'
  BY <1>2, <1>3 DEF ChangesInv, TimesInv
<1>5. OnDiskInv'
  BY <1>2 DEF ChangesInv, OnDiskInv
<1>6. ShowInv'
  <2> SUFFICES ASSUME NEW r \in Parts \cup new, NEW g \in Watched(r)
               PROVE  /\ ShowsIn(r, g, disk[g], mtime[g])
                      /\ moved[g] # NoBuffer => ShowsIn(r, g, moved[g].text, moved[g].time)
                      /\ IsLoaded(g)' => ShowsIn(r, g, loaded'[g].text, loaded'[g].time)
    BY <1>2 DEF ShowInv, ShowsIn, Watched, PrerequisiteChangedAfter, ChangedAfter
  <2>1. CASE r \in Parts
    <3>1. g \in File \ Holdable
      BY <2>1, PartTimes DEF Watched
    <3>2. loaded'[g] \in {loaded[g], NoBuffer, [text |-> disk[g], time |-> mtime[g]]}
      BY <1>7, <3>1
    <3> QED
      BY <2>1, <3>2 DEF ChangesInv, ShowInv, IsLoaded
  <2>2. CASE r \in new
    <3>1. /\ g \in File \ Holdable /\ Openable(g) /\ r.saw[g] = Reads(g)
          /\ EditPhases = {"idle"} \/ ~IsLoaded(g)
      BY <1>3, <2>2 DEF Watched
    <3>2. buf[g] = NoBuffer /\ (moved[g] # NoBuffer => disk[g] = NoText)
      BY <3>1 DEF ChangesInv, OnDiskInv
    <3>3. r.saw[g] = disk[g] /\ disk[g] # NoText
      BY <3>1, <3>2 DEF Openable, Reads, Held, ChangesInv, BuffersInv, OnDisk
    <3>4. IsLoaded(g)' => loaded'[g].text = disk[g]
      <4>1. CASE EditPhases = {"idle"}
        BY <1>2, <3>1, <4>1 DEF BuffersInv
      <4>2. CASE ~IsLoaded(g)
        BY <1>7, <3>1, <4>2 DEF IsLoaded
      <4> QED
        BY <3>1, <4>1, <4>2
    <3> QED
      BY <3>2, <3>3, <3>4 DEF ShowsIn, IsLoaded
  <2> QED
    BY <2>1, <2>2
<1> QED
  BY <1>4, <1>5, <1>6 DEF ChangesInv

\* No other step of a request, and no restart, adds a reference that is not in the
\* table or in the snapshot.
LEMMA OthersShow ==
    ASSUME TypeOK, TypeOK', ChangesInv, BuffersInv',
           \/ \E f \in Asked, op \in Ops : BeginRequest(f, op)
           \/ Scan \/ RemoveChanged \/ Collect \/ (\E c \in CUs : BuildCU(c))
           \/ ParseFails \/ EndParse \/ CollectAll \/ ProcessFile \/ SinglePass \/ EndRequest
           \/ Tick \/ Exit \/ Crash
    PROVE  ChangesInv'
<1>1. UNCHANGED <<disk, mtime, moved, client>>
  BY DEF BeginRequest, Scan, RemoveChanged, Collect, BuildCU, ParseFails, EndParse, AfterParse,
         CollectAll, ProcessFile, SinglePass, EndRequest, Tick, Exit, Crash, outside
<1>2. clock <= clock' /\ parse'.time <= clock'
  <2>1. clock' = clock \/ clock' = clock + 1
    BY DEF BeginRequest, Scan, RemoveChanged, Collect, BuildCU, ParseFails, EndParse, AfterParse,
           CollectAll, ProcessFile, SinglePass, EndRequest, Tick, Exit, Crash, ServerStarts
  <2>2. parse' = parse \/ parse'.time = clock \/ parse' = NoParse
    <3>1. ASSUME NEW c \in CUs, BuildCU(c), Exists(c)
          PROVE  parse'.time = clock
      BY <3>1 DEF BuildCU
    <3>2. ASSUME NEW c \in CUs, BuildCU(c), ~Exists(c)
          PROVE  parse' = parse
      BY <3>2 DEF BuildCU
    <3>3. CASE ParseFails \/ EndParse
      BY <3>3 DEF ParseFails, EndParse, AfterParse
    <3>4. CASE ProcessFile \/ SinglePass
      BY <3>4 DEF ProcessFile, SinglePass, request
    <3>5. CASE Exit \/ Crash
      BY <3>5 DEF Exit, Crash, ServerStarts
    <3>6. CASE \/ \E f \in Asked, op \in Ops : BeginRequest(f, op)
               \/ Scan \/ RemoveChanged \/ Collect \/ CollectAll \/ EndRequest \/ Tick
      BY <3>6 DEF BeginRequest, Scan, RemoveChanged, Collect, CollectAll, EndRequest, Tick,
                  request
    <3> QED
      BY <3>1, <3>2, <3>3, <3>4, <3>5, <3>6
  <2> QED
    BY <2>1, <2>2, PartTimes DEF NoParse, ChangesInv, TimesInv
<1>3. \A f \in File \ Holdable : buf'[f] = NoBuffer
  BY DEF BeginRequest, Scan, RemoveChanged, Collect, BuildCU, ParseFails, EndParse, AfterParse,
         CollectAll, ProcessFile, SinglePass, EndRequest, Tick, Exit, Crash, ServerStarts,
         NoBuffers, buffers, ChangesInv, OnDiskInv
<1>5. \A f \in File \ Holdable :
            loaded'[f] \in {loaded[f], NoBuffer, [text |-> disk[f], time |-> mtime[f]]}
  <2>1. CASE ProcessFile
    BY <2>1, OpenedFromDisk DEF ProcessFile, ChangesInv, OnDiskInv, Held
  <2>2. CASE EndRequest \/ Exit \/ Crash
    BY <2>2 DEF EndRequest, Exit, Crash, ServerStarts, NoBuffers
  <2>3. CASE \/ \E f \in Asked, op \in Ops : BeginRequest(f, op)
             \/ Scan \/ RemoveChanged \/ Collect \/ (\E c \in CUs : BuildCU(c))
             \/ ParseFails \/ EndParse \/ CollectAll \/ SinglePass \/ Tick
    <3>1. loaded' = loaded
      BY <2>3, ZenonT(60) DEF BeginRequest, Scan, RemoveChanged, Collect, BuildCU, ParseFails,
                            EndParse, AfterParse, CollectAll, SinglePass, Tick, buffers
    <3> QED
      BY <3>1
  <2> QED
    BY <2>1, <2>2, <2>3
<1>4. Parts' \subseteq Parts
  <2>1. ASSUME NEW f \in Asked, NEW op \in Ops, BeginRequest(f, op)
        PROVE  Parts' \subseteq Parts
    BY <2>1 DEF BeginRequest, Without, Parts
  <2>2. CASE Scan \/ RemoveChanged \/ Collect
    BY <2>2 DEF Scan, RemoveChanged, Collect, Without, Parts
  <2>3. ASSUME NEW gone, NEW kn, NEW rs \in SUBSET refs, CountBuilt(gone, kn, rs), refs' = rs
        PROVE  Parts' \subseteq Parts
    BY <2>3 DEF CountBuilt, Snapshot, Parts
  <2>4. ASSUME NEW c \in CUs, BuildCU(c)
        PROVE  Parts' \subseteq Parts
    <3>1. refs' \in SUBSET refs
      BY <2>4 DEF BuildCU, Without
    <3>2. CASE Exists(c)
      BY <2>4, <3>1, <3>2 DEF BuildCU, Parts
    <3>3. CASE ~Exists(c)
      BY <2>3, <2>4, <3>1, <3>3 DEF BuildCU
    <3> QED
      BY <3>2, <3>3
  <2>5. CASE ParseFails \/ EndParse
    <3>1. PICK kn : AfterParse(kn)
      BY <2>5 DEF ParseFails, EndParse
    <3>2. CASE parse.then = "answer"
      BY <3>1, <3>2 DEF AfterParse, Parts
    <3>3. CASE parse.then # "answer"
      BY <2>3, <3>1, <3>3 DEF AfterParse
    <3> QED
      BY <3>2, <3>3
  <2>6. CASE CollectAll \/ ProcessFile \/ SinglePass \/ EndRequest \/ Tick
    BY <2>6 DEF CollectAll, ProcessFile, SinglePass, EndRequest, Tick, Parts
  <2>7. CASE Exit \/ Crash
    BY <2>7 DEF Exit, Crash, ServerStarts, Snapshot, Parts
  <2> QED
    BY <2>1, <2>2, <2>4, <2>5, <2>6, <2>7
<1> QED
  BY <1>1, <1>2, <1>3, <1>4, <1>5, PartsKept

LEMMA ChangesInvAlways == Spec => []ChangesInv
<1>1. TypeOK /\ TypeOK' /\ ChangesInv /\ [Next]_vars => ChangesInv'
  <2> SUFFICES ASSUME TypeOK, TypeOK', ChangesInv, [Next]_vars PROVE ChangesInv'
    OBVIOUS
  <2>5. BuffersInv'
    BY BuffersKept DEF ChangesInv
  <2>1. CASE \E f \in Asked, op \in Ops : BeginRequest(f, op)
    BY <2>1, <2>5, OthersShow
  <2>2. CASE Server
    BY <2>2, <2>5, OthersShow, ParseShows DEF Server
  <2>3. CASE Environment
    BY <2>3, <2>5, OthersShow, DiskEditShows, DiskMoveShows, UserShows DEF Environment
  <2>4. CASE UNCHANGED vars
    <3>1. /\ UNCHANGED <<disk, mtime, moved, client, clock, buf, loaded, parse>>
          /\ Parts' = Parts
      BY <2>4 DEF vars, outside, items, buffers, request, Parts
    <3>2. clock <= clock' /\ parse'.time <= clock'
      BY <3>1, PartTimes DEF ChangesInv, TimesInv
    <3>3. \A f \in File \ Holdable : buf'[f] = NoBuffer /\ loaded'[f] = loaded[f]
      BY <3>1 DEF ChangesInv, OnDiskInv
    <3> QED
      BY <2>5, <3>1, <3>2, <3>3, PartsKept
  <2> QED
    BY <2>1, <2>2, <2>3, <2>4 DEF Next
<1>2. Spec => []TypeOK
  BY TypeCorrect
<1> QED
  BY <1>1, <1>2, InitChangesInv, PTL DEF Spec

\* ADR-0032: whatever programs do to the files, whenever in a request they do it, and
\* however often the server crashes and continues from a snapshot, a reference that
\* was read from another text than the server would read now is older than that
\* text's time.  The texts that the request had loaded earlier are left out: of those
\* it is not so (README, Knowledge).
THEOREM ChangesAlwaysShow == Spec => []ChangesShow
<1>1. TypeOK /\ ChangesInv => ChangesShow
  BY ChangesInvImplies
<1> QED
  BY <1>1, TypeCorrect, ChangesInvAlways, PTL

-----------------------------------------------------------------------------
(* Files that change only on disk and between requests                     *)
(*                                                                         *)
(* The theorems below are about this use of the server.  The README says   *)
(* which of the cases that are left out break the promises, and which are  *)
(* left to model checking.                                                 *)

DiskOnly ==
    /\ EditPhases = {"idle"}            \* no file changes during a request
    /\ Holdable = {}                    \* the client sends no unsaved text
    /\ Removable \cap Headers = {}      \* only CUs are removed,
    /\ Returnable = {}                  \* and they do not come back

\* What the disk is then: every header stays, and a file has a time while it is there.
World ==
    /\ \A f \in File : letGo[f] = 0 /\ (mtime[f] = 0 <=> disk[f] = NoText)
    /\ \A h \in Headers : disk[h] # NoText

\* The server reads the disk.
LEMMA DiskIsRead ==
    ASSUME DiskOnly, ChangesInv, World, NEW f \in File
    PROVE  /\ Reads(f) = disk[f] /\ Sees(f) = disk[f] /\ ~Held(f)
           /\ client[f] = NoText /\ buf[f] = NoBuffer
           /\ Exists(f) <=> disk[f] # NoText
           /\ Openable(f) <=> disk[f] # NoText
           /\ ModificationTime(f) = mtime[f]
<1>1. client[f] = NoText /\ buf[f] = NoBuffer
  BY DEF DiskOnly, ChangesInv, OnDiskInv
<1>2. IsLoaded(f) => loaded[f].text = disk[f] /\ loaded[f].time = mtime[f]
  BY DEF DiskOnly, ChangesInv, BuffersInv
<1> QED
  BY <1>1, <1>2 DEF Reads, Sees, Exists, Openable, OnDisk, ModificationTime, Held

\* The content time is the file's own, and a change time is the later of two.
LEMMA TimesRead ==
    ASSUME DiskOnly, ChangesInv, World, TypeOK, NEW f \in File
    PROVE  /\ ContentTimeOf(f) = mtime[f]
           /\ mtime[f] # 0 => mtime[f] <= ChangeTimeOf(f) /\ change[f] <= ChangeTimeOf(f)
<1>1. ModificationTime(f) = mtime[f] /\ letGo[f] = 0
  BY DiskIsRead DEF World
<1>2. mtime[f] \in Nat /\ change[f] \in Nat
  BY TimesAreNatural DEF TypeOK, WorldTypeOK, ItemsTypeOK
<1> QED
  BY <1>1, <1>2 DEF ContentTimeOf, ChangeTimeOf

-----------------------------------------------------------------------------
(* The shape of a reference                                                *)
(*                                                                         *)
(* A part was read from the texts its file reaches, no more and no less.   *)

DiskIncludes(f) == IF OnDisk(f) THEN {h \in Includes(f, disk[f]) : OnDisk(h)} ELSE {}
DiskEdges == EdgesOf([f \in File |-> DiskIncludes(f)])
SawNow(f) == [h \in Reached(DiskEdges, f) |-> disk[h]]
Own(r) == r.file \in CUs

Closed(r) == \A y \in DOMAIN r.saw : Includes(y, r.saw[y]) \subseteq DOMAIN r.saw
Least(r) ==
    \A Z \in SUBSET DOMAIN r.saw :
        r.file \in Z /\ (\A y \in Z : Includes(y, r.saw[y]) \subseteq Z) => Z = DOMAIN r.saw
Shaped(r) == Closed(r) /\ Least(r) /\ (Own(r) => r.by = r.file)

\* q was read from the texts that r was read from, as far as q goes.
Agrees(q, r) == DOMAIN q.saw \subseteq DOMAIN r.saw /\ \A y \in DOMAIN q.saw : q.saw[y] = r.saw[y]
PartOf(rs, h, r) == \E q \in rs : q.file = h /\ q.by = r.by /\ Agrees(q, r)

\* The files and texts of a part
LEMMA PartFiles ==
    ASSUME NEW r \in Part
    PROVE  /\ r.file \in File /\ r.file \in DOMAIN r.saw /\ DOMAIN r.saw \subseteq File
           /\ \A y \in DOMAIN r.saw : r.saw[y] \in Text /\ Includes(y, r.saw[y]) \subseteq Headers
           /\ r.at \in Nat
<1>1. /\ r.file \in File /\ r.file \in DOMAIN r.saw /\ r.at \in Time
      /\ r.saw \in UNION {[S -> Text] : S \in SUBSET File}
  BY DEF Part
<1>2. PICK S \in SUBSET File : r.saw \in [S -> Text]
  BY <1>1
<1>3. \A y \in DOMAIN r.saw : y \in File /\ r.saw[y] \in Text
  BY <1>2
<1>4. \A y \in DOMAIN r.saw : Includes(y, r.saw[y]) \subseteq Headers
  BY <1>3, FilesAssumption
<1> QED
  BY <1>1, <1>3, <1>4, TimesAreNatural

\* What a part was read from, beside its own file, are headers.
LEMMA PartOfHeaders ==
    ASSUME NEW r \in Part, Shaped(r)
    PROVE  \A y \in DOMAIN r.saw : y = r.file \/ y \in Headers
<1> DEFINE Z == {y \in DOMAIN r.saw : y = r.file \/ y \in Headers}
<1>1. r.file \in Z /\ Z \in SUBSET DOMAIN r.saw
  BY PartFiles
<1>2. \A y \in Z : Includes(y, r.saw[y]) \subseteq Z
  BY PartFiles DEF Shaped, Closed
<1>3. Z = DOMAIN r.saw
  BY <1>1, <1>2 DEF Shaped, Least
<1> QED
  BY <1>3

\* A closure goes on along the edges.
LEMMA ReachedGoesOn ==
    ASSUME NEW E, NEW f \in File, NEW y \in Reached(E, f), NEW h \in File, <<y, h>> \in E
    PROVE  h \in IncludeClosure(File, E, f)
<1> SUFFICES ASSUME NEW S \in ClosedFrom(File, E, f) PROVE h \in S
  BY DEF IncludeClosure
<1>1. y = f \/ y \in S
  BY DEF Reached, IncludeClosure
<1> QED
  BY <1>1 DEF ClosedFrom

LEMMA ReachedOfReached ==
    ASSUME NEW E \in SUBSET (File \X File), NEW f \in File, NEW y \in Reached(E, f)
    PROVE  Reached(E, y) \subseteq Reached(E, f)
<1> DEFINE S == Reached(E, f)
<1>1. S \in SUBSET File
  BY ClosureIsOfFiles DEF Reached
<1>2. ASSUME NEW e \in E, e[1] = y \/ e[1] \in S PROVE e[2] \in S
  <2>1. e[1] \in S /\ e[2] \in File /\ e = <<e[1], e[2]>>
    BY <1>2
  <2> QED
    BY <2>1, ReachedGoesOn DEF Reached
<1>3. S \in ClosedFrom(File, E, y)
  BY <1>1, <1>2 DEF ClosedFrom
<1>4. IncludeClosure(File, E, y) \subseteq S
  BY <1>3 DEF IncludeClosure
<1> QED
  BY <1>4 DEF Reached

\* What a parse of a file reads now is what it would read if nothing were loaded.
LEMMA DiskEdgesAreFollowed ==
    ASSUME DiskOnly, ChangesInv, World, TypeOK
    PROVE  IncludesNow = DiskEdges
<1>1. \A f \in File : IncludesOf(f) = DiskIncludes(f)
  <2> SUFFICES ASSUME NEW f \in File PROVE IncludesOf(f) = DiskIncludes(f)
    OBVIOUS
  <2>1. Reads(f) = disk[f] /\ (Openable(f) <=> OnDisk(f))
    BY DiskIsRead DEF OnDisk
  <2>2. Openable(f) => Includes(f, Reads(f)) \subseteq File
    BY ModificationTimeType, FilesAssumption DEF TypeOK, File
  <2>3. \A h \in File : Openable(h) <=> OnDisk(h)
    BY DiskIsRead DEF OnDisk
  <2> QED
    BY <2>1, <2>2, <2>3 DEF IncludesOf, DiskIncludes
<1> QED
  BY <1>1 DEF IncludesNow, DiskEdges

LEMMA DiskIsReached ==
    ASSUME DiskOnly, ChangesInv, World, TypeOK, NEW f \in File
    PROVE  [h \in ReachNow(f) |-> Reads(h)] = SawNow(f)
<1>1. ReachNow(f) = Reached(DiskEdges, f)
  BY DiskEdgesAreFollowed DEF ReachNow
<1>2. \A h \in ReachNow(f) : Reads(h) = disk[h]
  BY ClosureIsOfFiles, DiskIsRead DEF ReachNow, Reached
<1> QED
  BY <1>1, <1>2 DEF SawNow

\* A part that was read from what is on disk now is what a parse would make of it now.
LEMMA SawNowIfCurrent ==
    ASSUME DiskOnly, ChangesInv, World, TypeOK, NEW r \in Part, Shaped(r),
           \A y \in DOMAIN r.saw : r.saw[y] = disk[y]
    PROVE  r.saw = SawNow(r.file)
<1> DEFINE f == r.file
           D == DOMAIN r.saw
           Z == Reached(IncludesNow, f) \cap D
<1>1. f \in File /\ f \in D /\ D \subseteq File
  BY PartFiles
<1>2. \A y \in D : Reads(y) = r.saw[y] /\ IncludesOf(y) = Includes(y, r.saw[y])
  <2> SUFFICES ASSUME NEW y \in D
               PROVE  Reads(y) = r.saw[y] /\ IncludesOf(y) = Includes(y, r.saw[y])
    OBVIOUS
  <2>1. y \in File /\ r.saw[y] \in Text /\ Includes(y, r.saw[y]) \subseteq Headers
    BY PartFiles
  <2>2. Reads(y) = r.saw[y] /\ Openable(y)
    BY <2>1, DiskIsRead, TimesAreNatural
  <2>3. \A h \in Headers : Openable(h)
    BY DiskIsRead DEF World, File
  <2> QED
    BY <2>1, <2>2, <2>3 DEF IncludesOf
<1> HIDE DEF D
<1>3. \A y \in D : \A h \in Includes(y, r.saw[y]) : <<y, h>> \in IncludesNow /\ h \in D
  BY <1>1, <1>2 DEF IncludesNow, EdgesOf, Shaped, Closed, D
<1>4. \A e \in IncludesNow : e[1] \in D => e[2] \in D
  BY <1>2, <1>3 DEF IncludesNow, EdgesOf
<1>5. IncludeClosure(File, IncludesNow, f) \subseteq D
  BY <1>1, <1>4 DEF IncludeClosure, ClosedFrom
<1>6. \A y \in Z : Includes(y, r.saw[y]) \subseteq Z
  BY <1>1, <1>3, ReachedGoesOn DEF Reached
<1>7. f \in Z /\ Z \in SUBSET D
  BY <1>1 DEF Reached
<1>8. Z = D
  BY <1>6, <1>7 DEF Shaped, Least, D
<1>9. ReachNow(f) = D
  BY <1>1, <1>5, <1>8 DEF ReachNow, Reached
<1>10. r.saw = [y \in D |-> r.saw[y]]
  BY DEF D, Part
<1>11. SawNow(f) = [h \in ReachNow(f) |-> Reads(h)]
  BY <1>1, DiskIsReached
<1> QED
  BY <1>2, <1>9, <1>10, <1>11

\* The argument of this section: when the parts that one CU put in the table are
\* joined along their includes, whatever a part was read from is reached along the
\* graph, and has a part of its own that was read from the same text.
LEMMA PartsBelow ==
    ASSUME NEW rs \in SUBSET Part, NEW E, NEW r \in rs,
           \A q \in rs : Shaped(q),
           \A q \in rs : \A h \in IncludeReferences(q) : <<q.file, h>> \in E,
           \A q \in rs : q = r \/ q.file \in Headers =>
               \A h \in IncludeReferences(q) : PartOf(rs, h, q),
           NEW g \in DOMAIN r.saw
    PROVE  g \in Reached(E, r.file) /\ PartOf(rs, g, r)
<1> DEFINE D == DOMAIN r.saw
           Z == {y \in D : y \in Reached(E, r.file) /\ PartOf(rs, y, r)}
<1>1. r.file \in File /\ r.file \in D /\ D \subseteq File
  BY PartFiles
<1>2. r.file \in Z
  BY <1>1 DEF Reached, PartOf, Agrees
<1>3. ASSUME NEW y \in Z, NEW h \in Includes(y, r.saw[y]) PROVE h \in Z
  <2>1. PICK q \in rs : /\ q.file = y /\ q.by = r.by /\ Agrees(q, r)
                        /\ (q = r \/ q.file \in Headers)
    <3>1. CASE y = r.file
      BY <3>1 DEF Agrees
    <3>2. CASE y # r.file
      <4>1. y \in Headers
        BY <3>2, PartOfHeaders
      <4> QED
        BY <4>1 DEF PartOf
    <3> QED
      BY <3>1, <3>2
  <2>2. y \in DOMAIN q.saw /\ q.saw[y] = r.saw[y]
    BY <2>1, PartFiles DEF Agrees
  <2>3. h \in DOMAIN q.saw /\ h \in IncludeReferences(q)
    BY <1>3, <2>1, <2>2 DEF Shaped, Closed, IncludeReferences
  <2>4. PICK p \in rs : p.file = h /\ p.by = q.by /\ Agrees(p, q)
    BY <2>1, <2>3 DEF PartOf
  <2>5. PartOf(rs, h, r)
    BY <2>1, <2>4 DEF PartOf, Agrees
  <2>6. h \in D /\ h \in File
    BY <1>1, <2>1, <2>3 DEF Agrees
  <2>7. <<y, h>> \in E
    BY <2>1, <2>3
  <2>8. h \in Reached(E, r.file)
    BY <1>1, <1>3, <2>6, <2>7, ReachedGoesOn DEF Reached
  <2> QED
    BY <2>5, <2>6, <2>8
<1>4. Z = D
  BY <1>2, <1>3 DEF Shaped, Least
<1> QED
  BY <1>4

-----------------------------------------------------------------------------
(* A table of references, with the files and change times beside it: the   *)
(* one in memory and the one in the snapshot.                              *)

\* Whatever a part includes has a part by the same CU that was read from the same
\* texts.  A part of a CU may have lost one to the removal pass: then the
\* change time of that header is after the CU's knowledge.
Joined(rs, ch) ==
    \A r \in rs : \A h \in IncludeReferences(r) :
        PartOf(rs, h, r) \/ (Own(r) /\ r.at - Gap < ch[h])

\* A change that the removal pass has still to find is one the CU's knowledge shows.
Later(rs, ch, mt) ==
    \A r \in rs : Own(r) => \A h \in Headers :
        ch[h] = 0 \/ mt[h] <= ch[h] \/ r.at - Gap < mt[h]

\* The change times are those of headers that are known, and none is later than
\* the last change.
Met(rs, tab, ch, mt) ==
    /\ \A r \in rs : DOMAIN r.saw \subseteq tab
    /\ \A f \in File : ch[f] # 0 => f \in tab \cap Headers
    /\ \A f \in File : ch[f] = 0 \/ \E g \in Headers : ch[f] <= mt[g]

\* The removal pass will find what makes a dated part of a header a ghost.
Found(rs, ch, dk, mt) ==
    \A r \in rs : r.dated /\ r.file \in Headers =>
        \A g \in DOMAIN r.saw : ch[g] # 0 /\ (r.saw[g] = dk[g] \/ ch[g] < mt[g])

Tables(rs, tab, ch, dk, mt) ==
    /\ \A r \in rs : Shaped(r)
    /\ Joined(rs, ch) /\ Later(rs, ch, mt) /\ Met(rs, tab, ch, mt) /\ Found(rs, ch, dk, mt)

LEMMA NoPartsNoTables ==
    ASSUME NEW tab, NEW dk, NEW mt
    PROVE  Tables({}, tab, NoTimes, dk, mt)
BY DEF Tables, Joined, Later, Met, Found, NoTimes, File

\* Parts of CUs may go, and files may be added.
LEMMA FewerOwnParts ==
    ASSUME NEW rs \in SUBSET Part, NEW tab, NEW ch, NEW dk, NEW mt, Tables(rs, tab, ch, dk, mt),
           NEW rs2 \in SUBSET rs, \A r \in rs : r \notin rs2 => Own(r),
           NEW tab2, tab \subseteq tab2
    PROVE  Tables(rs2, tab2, ch, dk, mt)
<1>1. Joined(rs2, ch)
  <2> SUFFICES ASSUME NEW r \in rs2, NEW h \in IncludeReferences(r)
               PROVE  PartOf(rs2, h, r) \/ (Own(r) /\ r.at - Gap < ch[h])
    BY DEF Joined
  <2>1. h \in Headers
    BY PartFiles DEF IncludeReferences
  <2>2. CASE PartOf(rs, h, r)
    <3>1. PICK q \in rs : q.file = h /\ q.by = r.by /\ Agrees(q, r)
      BY <2>2 DEF PartOf
    <3>2. q \in rs2
      BY <2>1, <3>1, FilesAssumption DEF Own
    <3> QED
      BY <3>1, <3>2 DEF PartOf
  <2>3. CASE Own(r) /\ r.at - Gap < ch[h]
    BY <2>3
  <2> QED
    BY <2>2, <2>3 DEF Tables, Joined
<1>2. Later(rs2, ch, mt) /\ Found(rs2, ch, dk, mt)
  BY DEF Tables, Later, Found
<1>3. Met(rs2, tab2, ch, mt)
  BY DEF Tables, Met
<1> QED
  BY <1>1, <1>2, <1>3 DEF Tables

\* A change on disk has a later time than every change time and every knowledge.
LEMMA TablesAfterChange ==
    ASSUME TypeOK, DiskOnly, ChangesInv, NEW f \in File, DiskEdit(f) \/ DiskRemove(f),
           NEW rs \in SUBSET Parts, NEW tab, NEW ch \in [File -> Time],
           Tables(rs, tab, ch, disk, mtime)
    PROVE  Tables(rs, tab, ch, disk', mtime')
<1> DEFINE t == mtime'[f]
<1>1. /\ \A g \in File : g # f => disk'[g] = disk[g] /\ mtime'[g] = mtime[g]
      /\ f \in Headers => \A g \in File : mtime[g] < t
      /\ f \in Headers => \A r \in rs : r.at - Gap < t
      /\ \A g \in File : mtime[g] \in Nat /\ ch[g] \in Nat
      /\ t \in Int
  <2>1. \A g \in File : mtime[g] \in Nat /\ ch[g] \in Nat
    BY TimesAreNatural DEF TypeOK, WorldTypeOK
  <2>2. CASE DiskEdit(f)
    <3>1. PICK lag \in 0..MaxLag : /\ FreshStamp(clock - lag)
                                   /\ mtime' = [mtime EXCEPT ![f] = clock - lag]
      BY <2>2 DEF DiskEdit
    <3>2. t = clock - lag
      BY <3>1 DEF TypeOK, WorldTypeOK
    <3>3. \A g \in File : mtime[g] < t
      BY <3>1, <3>2 DEF FreshStamp
    <3>4. \A r \in rs : r.at \in Nat /\ r.at <= clock
      BY PartTimes DEF ChangesInv, TimesInv
    <3>5. clock \in Nat /\ lag \in Nat /\ lag < Gap /\ Gap \in Nat
      BY PartTimes, TimesAreNatural, ClockAssumption
    <3>6. \A r \in rs : r.at - Gap < t
      BY <3>2, <3>4, <3>5
    <3>7. \A g \in File : g # f => disk'[g] = disk[g] /\ mtime'[g] = mtime[g]
      BY <2>2, <3>1 DEF DiskEdit, TypeOK, WorldTypeOK
    <3> QED
      BY <2>1, <3>2, <3>3, <3>5, <3>6, <3>7
  <2>3. CASE DiskRemove(f)
    <3>1. f \notin Headers
      BY <2>3 DEF DiskRemove, DiskOnly
    <3>2. \A g \in File : g # f => disk'[g] = disk[g] /\ mtime'[g] = mtime[g]
      BY <2>3 DEF DiskRemove, TypeOK, WorldTypeOK
    <3>3. t \in Int
      BY <2>3 DEF DiskRemove, TypeOK, WorldTypeOK
    <3> QED
      BY <2>1, <3>1, <3>2, <3>3
  <2> QED
    BY <2>2, <2>3
<1> HIDE DEF t
<1>2. Headers \subseteq File /\ rs \subseteq Part
  BY DEF File, Parts, TypeOK, ContentTypeOK, SnapshotTypeOK
<1>3. \A g \in Headers : mtime[g] <= mtime'[g] /\ mtime'[g] \in Int
  BY <1>1, <1>2 DEF t
<1>4. Later(rs, ch, mtime')
  <2> SUFFICES ASSUME NEW r \in rs, Own(r), NEW h \in Headers
               PROVE  ch[h] = 0 \/ mtime'[h] <= ch[h] \/ r.at - Gap < mtime'[h]
    BY DEF Later
  <2>1. CASE h = f
    BY <1>1, <2>1 DEF t
  <2>2. CASE h # f
    <3>1. mtime'[h] = mtime[h]
      BY <1>1, <1>2, <2>2
    <3> QED
      BY <3>1 DEF Tables, Later
  <2> QED
    BY <2>1, <2>2
<1>5. Met(rs, tab, ch, mtime')
  <2> SUFFICES ASSUME NEW g \in File, ch[g] # 0 PROVE \E h \in Headers : ch[g] <= mtime'[h]
    BY DEF Tables, Met
  <2>1. PICK h \in Headers : ch[g] <= mtime[h]
    BY DEF Tables, Met
  <2>2. ch[g] \in Int /\ mtime[h] \in Int
    BY <1>1, <1>2
  <2> QED
    BY <1>3, <2>1, <2>2
<1>6. Found(rs, ch, disk', mtime')
  <2> SUFFICES ASSUME NEW r \in rs, r.dated, r.file \in Headers, NEW g \in DOMAIN r.saw
               PROVE  ch[g] # 0 /\ (r.saw[g] = disk'[g] \/ ch[g] < mtime'[g])
    BY DEF Found
  <2>1. ch[g] # 0 /\ (r.saw[g] = disk[g] \/ ch[g] < mtime[g])
    BY DEF Tables, Found
  <2>2. g \in Headers /\ g \in File
    BY <1>2, PartOfHeaders DEF Tables, File
  <2>3. CASE g # f
    BY <1>1, <2>1, <2>2, <2>3
  <2>4. CASE g = f
    <3>1. PICK h \in Headers : ch[g] <= mtime[h]
      BY <2>1, <2>2 DEF Tables, Met
    <3>2. mtime[h] < mtime'[g] /\ ch[g] \in Int /\ mtime[h] \in Int /\ mtime'[g] \in Int
      BY <1>1, <1>2, <2>2, <2>4 DEF t
    <3>3. ch[g] < mtime'[g]
      BY <3>1, <3>2
    <3> QED
      BY <2>1, <3>3
  <2> QED
    BY <2>3, <2>4
<1> QED
  BY <1>4, <1>5, <1>6 DEF Tables

\* The snapshot has what the table has: no header is deleted, and no part is of a CU
\* that is.
LEMMA TablesAreSaved ==
    ASSUME NEW rs \in SUBSET Part, NEW tab, NEW ch \in [File -> Time], NEW dk, NEW mt,
           Tables(rs, tab, ch, dk, mt), NEW gone \in SUBSET CUs,
           \A r \in rs : Own(r) => r.file \notin gone
    PROVE  /\ Tables(rs, tab \ gone, [f \in File |-> IF f \in tab \ gone THEN ch[f] ELSE 0], dk, mt)
           /\ \A r \in rs : Own(r) => r.file \in tab \ gone
<1>1. \A f \in File : ch[f] # 0 => f \in (tab \ gone) \cap Headers
  BY FilesAssumption DEF Tables, Met
<1>2. [f \in File |-> IF f \in tab \ gone THEN ch[f] ELSE 0] = ch
  BY <1>1
<1>3. ASSUME NEW r \in rs PROVE DOMAIN r.saw \subseteq tab \ gone
  <2>1. DOMAIN r.saw \subseteq tab /\ Shaped(r) /\ r \in Part
    BY DEF Tables, Met
  <2>2. \A y \in DOMAIN r.saw : y = r.file \/ y \in Headers
    BY <2>1, PartOfHeaders
  <2>3. r.file \notin gone
    BY FilesAssumption DEF Own
  <2> QED
    BY <2>1, <2>2, <2>3, FilesAssumption
<1>4. Met(rs, tab \ gone, ch, mt)
  BY <1>1, <1>3 DEF Tables, Met
<1>5. \A r \in rs : r.file \in DOMAIN r.saw
  BY PartFiles
<1> QED
  BY <1>2, <1>3, <1>4, <1>5 DEF Tables

-----------------------------------------------------------------------------
(* The removal pass                                                        *)

Changed == {h \in Headers \cap table : change[h] # 0 /\ change[h] < ContentTimeOf(h)}
Includers == {h \in (Headers \cap table) \ Changed : Below(IncludeEdges, Changed, h) # {}}

\* No header has a change that is later than its change time.
NoneLater(ch, mt) == \A h \in Headers : ch[h] = 0 \/ mt[h] <= ch[h]

\* What the pass does to the change times
LEMMA RemovalTimes ==
    ASSUME TypeOK, DiskOnly, ChangesInv, World, RemoveChanged
    PROVE  /\ refs' = {r \in refs : r.file \notin Changed \cup Includers}
           /\ \A f \in File : change[f] <= change'[f]
           /\ \A h \in Headers \cap table : mtime[h] <= change'[h] /\ change'[h] # 0
           /\ \A f \in File \ (Headers \cap table) : change'[f] = change[f]
           /\ \A f \in File : change'[f] = change[f] \/ \E g \in Headers : change'[f] = mtime[g]
           /\ \A h \in Changed \cup Includers : \E g \in Changed : mtime[g] <= change'[h]
<1> DEFINE known     == Headers \cap table
           changed   == {h \in known : change[h] # 0 /\ change[h] < ContentTimeOf(h)}
           includers == {h \in known \ changed : Below(graph', changed, h) # {}}
           own       == [h \in File |-> IF h \in changed \/ (h \in known /\ change[h] = 0)
                                        THEN ContentTimeOf(h) ELSE change[h]]
<1>0. changed = Changed /\ includers = Includers /\ refs' = Without(changed \cup includers)
  BY DEF RemoveChanged, Changed, Includers
<1>1. PICK met \in [includers -> changed] :
        change' = [h \in File |-> IF h \in includers /\ own[h] < ContentTimeOf(met[h])
                                  THEN ContentTimeOf(met[h]) ELSE own[h]]
  BY DEF RemoveChanged
<1>2. refs' = {r \in refs : r.file \notin Changed \cup Includers}
  BY <1>0 DEF Without
<1>3. Changed \subseteq known /\ Includers \subseteq known /\ known \subseteq Headers
      /\ Headers \subseteq File /\ Changed \cap Includers = {}
  BY DEF Changed, Includers, File
<1>4. \A f \in File : ContentTimeOf(f) = mtime[f] /\ mtime[f] \in Nat /\ change[f] \in Nat
  BY TimesRead, TimesAreNatural DEF TypeOK, WorldTypeOK, ItemsTypeOK
<1>5. \A h \in Headers : mtime[h] # 0
  BY <1>3 DEF World
<1>6. \A h \in Changed : change[h] # 0 /\ change[h] < mtime[h]
  BY <1>3, <1>4 DEF Changed
<1>7. \A h \in known \ Changed : change[h] = 0 \/ mtime[h] <= change[h]
  BY <1>3, <1>4 DEF Changed
<1>8. \A h \in File : own[h] = IF h \in Changed \/ (h \in known /\ change[h] = 0)
                               THEN mtime[h] ELSE change[h]
  BY <1>0, <1>4
<1>9. \A h \in Includers : met[h] \in Changed
  BY <1>0, <1>1
<1> HIDE DEF known, changed, includers, own
<1>10. \A h \in File : change'[h] = IF h \in Includers /\ own[h] < mtime[met[h]]
                                    THEN mtime[met[h]] ELSE own[h]
  <2>1. \A h \in Includers : ContentTimeOf(met[h]) = mtime[met[h]]
    BY <1>3, <1>4, <1>9
  <2> QED
    BY <1>0, <1>1, <2>1
<1>11. ASSUME NEW f \in File
       PROVE  /\ change[f] <= change'[f] /\ own[f] <= change'[f]
              /\ f \in known => mtime[f] <= change'[f] /\ change'[f] # 0
              /\ f \notin known => change'[f] = change[f]
              /\ change'[f] = change[f] \/ \E g \in Headers : change'[f] = mtime[g]
  <2>1. mtime[f] \in Nat /\ change[f] \in Nat /\ own[f] \in Nat
    BY <1>4, <1>8
  <2>2. change[f] <= own[f] /\ (f \in known => mtime[f] <= own[f])
    BY <1>4, <1>6, <1>7, <1>8, <2>1
  <2>3. own[f] <= change'[f] /\ change'[f] \in Nat
    BY <1>3, <1>4, <1>9, <1>10, <2>1
  <2>4. f \in known => mtime[f] # 0
    BY <1>3, <1>5
  <2>5. f \notin known => change'[f] = change[f]
    BY <1>3, <1>8, <1>10
  <2>6. own[f] = change[f] \/ \E g \in Headers : own[f] = mtime[g]
    BY <1>3, <1>8
  <2>7. change'[f] = own[f] \/ \E g \in Headers : change'[f] = mtime[g]
    BY <1>3, <1>9, <1>10
  <2> QED
    BY <2>1, <2>2, <2>3, <2>4, <2>5, <2>6, <2>7
<1>12. ASSUME NEW h \in Changed \cup Includers
       PROVE  \E g \in Changed : mtime[g] <= change'[h]
  <2>1. CASE h \in Changed
    BY <1>3, <1>11, <2>1
  <2>2. CASE h \in Includers
    <3>1. met[h] \in Changed /\ h \in File /\ met[h] \in File
      BY <1>3, <1>9, <2>2
    <3>2. mtime[met[h]] \in Nat /\ own[h] \in Nat
      BY <1>4, <1>8, <3>1
    <3>3. mtime[met[h]] <= change'[h]
      BY <1>10, <2>2, <3>1, <3>2
    <3> QED
      BY <3>1, <3>3
  <2> QED
    BY <2>1, <2>2
<1>13. \A h \in known : h \in File /\ mtime[h] <= change'[h] /\ change'[h] # 0
  BY <1>3, <1>11
<1> QED
  BY <1>2, <1>11, <1>12, <1>13 DEF known

\* The edges of the graph lead where the references of the table say.
LEMMA EdgesOfReferences ==
    \A r \in refs : \A h \in IncludeReferences(r) : <<r.file, h>> \in IncludeEdges
BY DEF IncludeEdges

\* A part that the pass leaves of a known header has nothing below it that changed.
LEMMA NoGhostsAreLeft ==
    ASSUME TypeOK, DiskOnly, ChangesInv, World, Tables(refs, table, change, disk, mtime),
           NEW r \in refs, r.file \notin Changed \cup Includers, r.dated, r.file \in Headers,
           NEW g \in DOMAIN r.saw
    PROVE  r.saw[g] = disk[g]
<1> SUFFICES ASSUME r.saw[g] # disk[g] PROVE FALSE
  OBVIOUS
<1>1. refs \in SUBSET Part /\ r \in Part
  BY DEF TypeOK, ContentTypeOK
<1>2. r.file \in DOMAIN r.saw /\ r.file \in table /\ g \in Headers \cap table /\ g \in File
  BY <1>1, PartFiles, PartOfHeaders DEF Tables, Met
<1>3. change[g] # 0 /\ change[g] < mtime[g]
  BY DEF Tables, Found
<1>4. g \in Changed
  BY <1>2, <1>3, TimesRead DEF Changed
<1>5. \A q \in refs : q = r \/ q.file \in Headers =>
          \A h \in IncludeReferences(q) : PartOf(refs, h, q)
  BY FilesAssumption DEF Tables, Joined, Own
<1>6. g \in Reached(IncludeEdges, r.file)
  BY <1>1, <1>5, EdgesOfReferences, PartsBelow DEF Tables
<1>7. g # r.file
  BY <1>4
<1>8. g \in Below(IncludeEdges, Changed, r.file)
  BY <1>4, <1>6, <1>7 DEF Below, Reached
<1> QED
  BY <1>2, <1>8 DEF Includers

LEMMA TablesAfterRemoval ==
    ASSUME TypeOK, DiskOnly, ChangesInv, World, Tables(refs, table, change, disk, mtime),
           RemoveChanged
    PROVE  /\ Tables(refs', table, change', disk, mtime)
           /\ NoneLater(change', mtime)
<1> DEFINE X == Changed \cup Includers
<1>1. /\ refs \in SUBSET Part /\ refs' = {r \in refs : r.file \notin X}
      /\ X \subseteq Headers /\ Headers \subseteq File
  BY RemovalTimes DEF TypeOK, ContentTypeOK, Changed, Includers, File
<1>2. \A f \in File : mtime[f] \in Nat /\ change[f] \in Nat
  BY TimesAreNatural DEF TypeOK, WorldTypeOK, ItemsTypeOK
<1>3. \A f \in File : change'[f] \in Nat
  BY <1>1, <1>2, RemovalTimes
<1>4. \A f \in File : change[f] <= change'[f]
  BY RemovalTimes
<1>5. \A h \in Headers : change'[h] = 0 \/ mtime[h] <= change'[h]
  <2>1. \A h \in Headers \ table : change[h] = 0
    BY <1>1 DEF Tables, Met
  <2> QED
    BY <1>1, <2>1, RemovalTimes
<1>6. Joined(refs', change')
  <2> SUFFICES ASSUME NEW r \in refs', NEW h \in IncludeReferences(r), ~PartOf(refs', h, r)
               PROVE  Own(r) /\ r.at - Gap < change'[h]
    BY DEF Joined
  <2>1. r \in refs /\ r \in Part /\ r.file \notin X /\ h \in Headers /\ h \in File /\ r.at \in Nat
    BY <1>1, PartFiles DEF IncludeReferences
  <2>2. CASE PartOf(refs, h, r)
    <3>1. h \in X
      BY <1>1, <2>2 DEF PartOf
    <3>2. Own(r)
      <4> SUFFICES ASSUME ~Own(r) PROVE FALSE
        OBVIOUS
      <4>1. r.file \in Headers \cap table /\ r.file \in File /\ h \in table
        <5>1. r.file \in DOMAIN r.saw /\ h \in DOMAIN r.saw /\ r.file \in File
          BY <2>1, PartFiles DEF IncludeReferences
        <5> QED
          BY <2>1, <5>1 DEF Own, File, Tables, Met
      <4>2. <<r.file, h>> \in IncludeEdges /\ IncludeEdges \in SUBSET (File \X File)
        BY <2>1, EdgesOfReferences, IncludeEdgesType DEF TypeOK, File
      <4>3. h \in IncludeClosure(File, IncludeEdges, r.file)
        BY <2>1, <4>1, <4>2, ReachedGoesOn DEF Reached
      <4>4. PICK x \in Changed : x \in Reached(IncludeEdges, h)
        BY <3>1 DEF Includers, Below, Reached
      <4>5. x \in Reached(IncludeEdges, r.file)
        BY <4>1, <4>2, <4>3, <4>4, ReachedOfReached DEF Reached
      <4>6. x # r.file
        BY <2>1, <4>4
      <4>7. x \in Below(IncludeEdges, Changed, r.file)
        BY <4>4, <4>5, <4>6 DEF Below, Reached
      <4> QED
        BY <2>1, <4>1, <4>7 DEF Includers
    <3>3. PICK x \in Changed : mtime[x] <= change'[h]
      BY <3>1, RemovalTimes
    <3>4. x \in Headers /\ change[x] # 0 /\ change[x] < mtime[x] /\ x \in File
      BY <1>1, TimesRead DEF Changed
    <3>5. r.at - Gap < mtime[x]
      BY <1>2, <2>1, <3>2, <3>4 DEF Tables, Later
    <3>6. r.at - Gap < change'[h]
      BY <1>2, <1>3, <2>1, <3>3, <3>4, <3>5, TimesAreNatural
    <3> QED
      BY <3>2, <3>6
  <2>3. CASE Own(r) /\ r.at - Gap < change[h]
    BY <1>2, <1>3, <1>4, <2>1, <2>3, TimesAreNatural
  <2> QED
    BY <2>1, <2>2, <2>3 DEF Tables, Joined
<1>7. Later(refs', change', mtime)
  BY <1>5 DEF Later
<1>8. Met(refs', table, change', mtime)
  <2>1. \A f \in File : change'[f] # 0 => f \in table \cap Headers
    BY RemovalTimes DEF Tables, Met
  <2>2. \A f \in File : change'[f] = 0 \/ \E g \in Headers : change'[f] <= mtime[g]
    BY <1>1, <1>2, RemovalTimes DEF Tables, Met
  <2> QED
    BY <1>1, <2>1, <2>2 DEF Tables, Met
<1>9. Found(refs', change', disk, mtime)
  <2> SUFFICES ASSUME NEW r \in refs', r.dated, r.file \in Headers, NEW g \in DOMAIN r.saw
               PROVE  change'[g] # 0 /\ r.saw[g] = disk[g]
    BY DEF Found
  <2>1. r \in refs /\ r.file \notin X /\ r \in Part
    BY <1>1
  <2>2. r.saw[g] = disk[g]
    BY <2>1, NoGhostsAreLeft
  <2>3. change[g] # 0 /\ g \in File
    BY <2>1, PartFiles DEF Tables, Found
  <2>4. change'[g] # 0
    BY <1>2, <1>3, <1>4, <2>3
  <2> QED
    BY <2>2, <2>4
<1> QED
  BY <1>1, <1>5, <1>6, <1>7, <1>8, <1>9 DEF Tables, NoneLater

-----------------------------------------------------------------------------
(* A parse                                                                 *)

\* The edges of the disk, as a parse follows them
LEMMA EdgesNow ==
    ASSUME TypeOK, DiskOnly, ChangesInv, World
    PROVE  /\ IncludesNow \in SUBSET (File \X File)
           /\ \A e \in IncludesNow : e[2] \in Headers
           /\ \A y \in File : Openable(y) =>
                \A h \in Includes(y, Reads(y)) : h \in Headers /\ <<y, h>> \in IncludesNow
           /\ \A e \in IncludesNow : e[2] \in Includes(e[1], Reads(e[1]))
<1>1. \A y \in File : Openable(y) => Includes(y, Reads(y)) \subseteq Headers
  BY ModificationTimeType, FilesAssumption DEF TypeOK
<1>2. \A h \in Headers : h \in File /\ Openable(h)
  BY DiskIsRead DEF World, File
<1>3. \A y \in File : IncludesOf(y) = IF Openable(y) THEN Includes(y, Reads(y)) ELSE {}
  BY <1>1, <1>2 DEF IncludesOf
<1>4. \A e : e \in IncludesNow <=> \E y \in File : \E h \in IncludesOf(y) : e = <<y, h>>
  BY DEF IncludesNow, EdgesOf
<1> QED
  BY <1>1, <1>2, <1>3, <1>4

\* What a parse puts in the table
LEMMA NewParts ==
    ASSUME TypeOK, DiskOnly, ChangesInv, World, NEW f \in File, Openable(f), NEW t \in Time,
           NEW p \in Emits(f, t)
    PROVE  /\ p \in Part /\ p.file \in ReachNow(f) /\ p.by = f /\ p.at = t
           /\ p.saw = SawNow(p.file) /\ DOMAIN p.saw = ReachNow(p.file)
           /\ \A y \in DOMAIN p.saw : y \in ReachNow(f) /\ p.saw[y] = disk[y]
           /\ p.dated => \A h \in DOMAIN p.saw \cap Headers : change[h] # 0
           /\ Shaped(p)
           /\ \A h \in IncludeReferences(p) : PartOf(Emits(f, t), h, p)
<1>1. PICK g \in ReachNow(f) :
        p = [file |-> g, by |-> f, at |-> t,
             saw |-> [h \in Reached(IncludesNow, g) |-> Reads(h)],
             earlier |-> {h \in Reached(IncludesNow, g) : IsLoaded(h)},
             dated |-> \A h \in Reached(IncludesNow, g) \cap Headers : change[h] # 0]
  BY DEF Emits, ReachNow
<1>13. /\ p.file = g /\ p.by = f /\ p.at = t /\ p.saw = [h \in ReachNow(g) |-> Reads(h)]
       /\ p.dated <=> \A h \in ReachNow(g) \cap Headers : change[h] # 0
  BY <1>1, Zenon DEF ReachNow
<1>5. g \in File /\ Openable(g)
  BY ReachedFilesExist DEF TypeOK
<1>2. /\ p.file = g /\ p.by = f /\ p.at = t /\ p.saw = SawNow(g)
      /\ p.dated <=> \A h \in ReachNow(g) \cap Headers : change[h] # 0
  BY <1>13, <1>5, DiskIsReached
<1>3. DOMAIN p.saw = ReachNow(g)
  BY <1>13
<1>4. p \in Part
  BY EmittedPartsType DEF TypeOK
<1>6. ReachNow(g) \subseteq ReachNow(f)
  BY EdgesNow, ReachedOfReached DEF ReachNow
<1>7. \A y \in ReachNow(g) : y \in File /\ Openable(y) /\ p.saw[y] = Reads(y) /\ Reads(y) = disk[y]
  <2>1. \A y \in ReachNow(g) : y \in File /\ Openable(y)
    BY <1>6, ReachedFilesExist DEF TypeOK
  <2>2. \A y \in ReachNow(g) : Reads(y) = disk[y]
    BY <2>1, DiskIsRead
  <2> QED
    BY <1>13, <2>1, <2>2
<1>8. ASSUME NEW y \in ReachNow(g), NEW h \in Includes(y, p.saw[y])
      PROVE  h \in ReachNow(g)
  <2>1. <<y, h>> \in IncludesNow /\ h \in File
    BY <1>7, EdgesNow DEF File
  <2> QED
    BY <1>5, <2>1, ReachedGoesOn DEF ReachNow, Reached
<1>9. Closed(p)
  BY <1>3, <1>8 DEF Closed
<1>10. Least(p)
  <2> SUFFICES ASSUME NEW Z \in SUBSET ReachNow(g), g \in Z,
                      \A y \in Z : Includes(y, p.saw[y]) \subseteq Z
               PROVE  Z = ReachNow(g)
    BY <1>2, <1>3 DEF Least
  <2>1. Z \in SUBSET File
    BY <1>7
  <2>2. ASSUME NEW e \in IncludesNow, e[1] = g \/ e[1] \in Z PROVE e[2] \in Z
    <3>1. e[1] \in Z /\ e[2] \in Includes(e[1], Reads(e[1]))
      BY <2>2, EdgesNow
    <3> QED
      BY <1>7, <3>1
  <2>3. IncludeClosure(File, IncludesNow, g) \subseteq Z
    BY <2>1, <2>2 DEF IncludeClosure, ClosedFrom
  <2> QED
    BY <2>3 DEF ReachNow, Reached
<1>11. Own(p) => p.by = p.file
  <2>1. IncludeClosure(File, IncludesNow, f) \subseteq Headers
    BY EdgesNow, ClosureStaysWithin DEF File
  <2> QED
    BY <1>2, <2>1, FilesAssumption DEF Own, ReachNow, Reached
<1>12. ASSUME NEW h \in IncludeReferences(p) PROVE PartOf(Emits(f, t), h, p)
  <2>1. h \in ReachNow(g) /\ h \in ReachNow(f)
    BY <1>3, <1>6, <1>12 DEF IncludeReferences
  <2> DEFINE q == [file |-> h, by |-> f, at |-> t,
                   saw |-> [x \in Reached(IncludesNow, h) |-> Reads(x)],
                   earlier |-> {x \in Reached(IncludesNow, h) : IsLoaded(x)},
                   dated |-> \A x \in Reached(IncludesNow, h) \cap Headers : change[x] # 0]
  <2>2. q \in Emits(f, t)
    BY <2>1 DEF Emits, ReachNow
  <2>3. q.file = h /\ q.by = f /\ q.saw = [x \in ReachNow(h) |-> Reads(x)]
    BY DEF ReachNow
  <2> HIDE DEF q
  <2>4. ReachNow(h) \subseteq ReachNow(g)
    BY <1>5, <2>1, EdgesNow, ReachedOfReached DEF ReachNow
  <2>5. Agrees(q, p)
    BY <1>3, <1>7, <2>3, <2>4 DEF Agrees
  <2> QED
    BY <1>2, <2>2, <2>3, <2>5 DEF PartOf
<1> QED
  BY <1>2, <1>3, <1>4, <1>6, <1>7, <1>9, <1>10, <1>11, <1>12 DEF Shaped

\* Every file that is reached gets a part.
LEMMA NewPartOf ==
    ASSUME TypeOK, DiskOnly, ChangesInv, World, NEW f \in File, NEW t, NEW g \in ReachNow(f)
    PROVE  \E p \in Emits(f, t) : p.file = g /\ p.by = f /\ p.saw = SawNow(g)
<1> DEFINE q == [file |-> g, by |-> f, at |-> t,
                 saw |-> [x \in Reached(IncludesNow, g) |-> Reads(x)],
                 earlier |-> {x \in Reached(IncludesNow, g) : IsLoaded(x)},
                 dated |-> \A x \in Reached(IncludesNow, g) \cap Headers : change[x] # 0]
<1>1. q \in Emits(f, t)
  BY DEF Emits, ReachNow
<1>2. q.file = g /\ q.by = f /\ q.saw = [x \in ReachNow(g) |-> Reads(x)]
  BY DEF ReachNow
<1>3. g \in File
  BY ClosureIsOfFiles DEF ReachNow, Reached
<1> HIDE DEF q
<1> QED
  BY <1>1, <1>2, <1>3, DiskIsReached

LEMMA TablesAfterParse ==
    ASSUME TypeOK, DiskOnly, ChangesInv, World, NoneLater(change, mtime),
           Tables(refs, table, change, disk, mtime),
           NEW f \in File, Openable(f), NEW t \in Time
    PROVE  Tables(Renewed(Emits(f, t)), table \cup ReachNow(f), change, disk, mtime)
<1> DEFINE new == Emits(f, t)
           rs  == Renewed(new)
           tab == table \cup ReachNow(f)
<1>1. \A r \in rs : r \in new \/ (r \in refs /\ \A p \in new : ~SamePart(r, p))
  BY DEF Renewed
<1>2. \A p \in new : p \in rs
  BY DEF Renewed
<1>3. \A q \in refs : q \in rs \/ \E p \in new : SamePart(q, p)
  BY DEF Renewed
<1>4. refs \subseteq Part
  BY DEF TypeOK, ContentTypeOK
<1>5. \A p \in new :
        /\ p \in Part /\ Shaped(p) /\ \A y \in DOMAIN p.saw : y \in ReachNow(f) /\ p.saw[y] = disk[y]
        /\ p.dated => \A h \in DOMAIN p.saw \cap Headers : change[h] # 0
        /\ \A h \in IncludeReferences(p) : PartOf(new, h, p)
  BY NewParts
<1> HIDE DEF new, rs, tab
<1>6. \A r \in rs : Shaped(r)
  BY <1>1, <1>5 DEF Tables
<1>7. Joined(rs, change)
  <2> SUFFICES ASSUME NEW r \in rs, NEW h \in IncludeReferences(r)
               PROVE  PartOf(rs, h, r) \/ (Own(r) /\ r.at - Gap < change[h])
    BY DEF Joined
  <2>1. CASE r \in new
    <3>1. PartOf(new, h, r)
      BY <1>5, <2>1
    <3> QED
      BY <1>2, <3>1 DEF PartOf
  <2>2. CASE r \in refs /\ PartOf(refs, h, r)
    <3>1. PICK q \in refs : q.file = h /\ q.by = r.by /\ Agrees(q, r)
      BY <2>2 DEF PartOf
    <3>2. CASE q \in rs
      BY <3>1, <3>2 DEF PartOf
    <3>3. CASE q \notin rs
      <4>1. PICK p \in new : SamePart(q, p)
        BY <1>3, <3>3
      <4> QED
        BY <1>2, <3>1, <4>1 DEF PartOf, SamePart, Agrees
    <3> QED
      BY <3>2, <3>3
  <2>3. CASE r \in refs /\ ~PartOf(refs, h, r)
    BY <2>3 DEF Tables, Joined
  <2> QED
    BY <1>1, <2>1, <2>2, <2>3
<1>8. Later(rs, change, mtime)
  BY DEF Later, NoneLater
<1>9. Met(rs, tab, change, mtime)
  <2>1. \A r \in rs : DOMAIN r.saw \subseteq tab
    BY <1>1, <1>5 DEF Tables, Met, tab
  <2> QED
    BY <2>1 DEF Tables, Met, tab
<1>10. Found(rs, change, disk, mtime)
  <2> SUFFICES ASSUME NEW r \in rs, r.dated, r.file \in Headers, NEW g \in DOMAIN r.saw
               PROVE  change[g] # 0 /\ (r.saw[g] = disk[g] \/ change[g] < mtime[g])
    BY DEF Found
  <2>1. CASE r \in refs
    BY <2>1 DEF Tables, Found
  <2>2. CASE r \in new
    <3>1. g \in Headers
      BY <1>5, <2>2, PartOfHeaders
    <3> QED
      BY <1>5, <2>2, <3>1
  <2> QED
    BY <1>1, <2>1, <2>2
<1> QED
  BY <1>6, <1>7, <1>8, <1>9, <1>10 DEF Tables, rs, new, tab

\* The parts of a CU's own file have the CU's knowledge time.
OwnTimes(rs, kn) == \A r \in rs : Own(r) => r.at = kn[r.file]

\* The parts of f's own file, if it is a CU, were read from what a parse would read.
ReadAgain(rs, f) == \A r \in rs : r.file = f /\ Own(r) => r.saw = SawNow(f)

LEMMA OwnTimesAfterParse ==
    ASSUME TypeOK, DiskOnly, ChangesInv, World, \A r \in refs : Shaped(r),
           NEW f \in File, Openable(f), NEW t \in Time,
           OwnTimes(refs, know), ReadAgain(refs, f)
    PROVE  /\ OwnTimes(Renewed(Emits(f, t)), [know EXCEPT ![f] = t])
           /\ \A g \in File : ReadAgain(refs, g) => ReadAgain(Renewed(Emits(f, t)), g)
<1>1. \A p \in Emits(f, t) : p.at = t /\ p.by = f /\ Shaped(p) /\ p.saw = SawNow(p.file)
  BY NewParts
<1>2. f \in ReachNow(f)
  BY DEF ReachNow, Reached
<1>3. PICK own \in Emits(f, t) : own.file = f /\ own.by = f /\ own.saw = SawNow(f)
  BY <1>2, NewPartOf
<1>4. know \in [File -> Time]
  BY DEF TypeOK, ItemsTypeOK
<1>5. ASSUME NEW r \in Renewed(Emits(f, t)), Own(r)
      PROVE  r.at = [know EXCEPT ![f] = t][r.file]
  <2>1. r.file \in File
    BY <1>5 DEF Own, File
  <2>2. CASE r \in Emits(f, t)
    BY <1>1, <1>4, <1>5, <2>1, <2>2 DEF Shaped
  <2>3. CASE r \notin Emits(f, t)
    <3>1. r \in refs /\ ~SamePart(r, own)
      BY <2>3 DEF Renewed
    <3>2. r.by = r.file
      BY <1>5, <3>1 DEF Shaped
    <3>3. r.file # f
      BY <1>3, <1>5, <3>1, <3>2 DEF SamePart, ReadAgain
    <3> QED
      BY <1>4, <1>5, <2>1, <3>1, <3>3 DEF OwnTimes
  <2> QED
    BY <2>2, <2>3
<1>6. ASSUME NEW g \in File, ReadAgain(refs, g)
      PROVE  ReadAgain(Renewed(Emits(f, t)), g)
  BY <1>1, <1>6 DEF ReadAgain, Renewed
<1> QED
  BY <1>5, <1>6 DEF OwnTimes

-----------------------------------------------------------------------------
(* What a CU that is not out of date has                                   *)

LEMMA CurrentHasAll ==
    ASSUME TypeOK, DiskOnly, ChangesInv, World, Tables(refs, table, change, disk, mtime),
           NEW E, \A q \in refs : \A h \in IncludeReferences(q) : <<q.file, h>> \in E,
           NEW r \in refs, Own(r), r.at = know[r.file],
           ~KnowledgeIsOutOfDate(E, [f \in File |-> ChangeTimeOf(f)], r.file)
    PROVE  /\ \A y \in DOMAIN r.saw : r.saw[y] = disk[y] /\ PartOf(refs, y, r)
           /\ r.saw = SawNow(r.file)
<1> DEFINE c == r.file
<1>1. refs \in SUBSET Part /\ r \in Part /\ Shaped(r) /\ r \in Parts
  BY DEF TypeOK, ContentTypeOK, Tables, Parts
<1>2. c \in File /\ c \in DOMAIN r.saw /\ DOMAIN r.saw \subseteq File /\ r.at \in Nat
  BY <1>1, PartFiles
<1>3. \A y \in File : mtime[y] \in Nat /\ change[y] \in Nat /\ ChangeTimeOf(y) \in Nat
  BY ChangeTimesType, TimesAreNatural DEF TypeOK, WorldTypeOK, ItemsTypeOK
<1>4. mtime[c] # 0 /\ ~(r.at - Gap < mtime[c])
  BY <1>2, DiskIsRead DEF KnowledgeIsOutOfDate, PrerequisiteChangedAfter, ChangedAfter
<1>5. \A h \in IncludeClosure(File, E, c) :
        ~(r.at - Gap < mtime[h]) /\ ~(r.at - Gap < change[h]) /\ (h \in Headers => mtime[h] # 0)
  <2> SUFFICES ASSUME NEW h \in IncludeClosure(File, E, c)
               PROVE  /\ ~(r.at - Gap < mtime[h]) /\ ~(r.at - Gap < change[h])
                      /\ h \in Headers => mtime[h] # 0
    OBVIOUS
  <2>1. h \in File
    BY ClosureIsOfFiles
  <2>2. ~(r.at - Gap < ChangeTimeOf(h)) /\ ChangeTimeOf(h) # 0
    BY <2>1 DEF KnowledgeIsOutOfDate, PrerequisiteChangedAfter, ChangedAfter
  <2>3. mtime[h] # 0
    BY <2>1, <2>2, DiskIsRead DEF ChangeTimeOf
  <2>4. mtime[h] <= ChangeTimeOf(h) /\ change[h] <= ChangeTimeOf(h)
    BY <2>1, <2>3, TimesRead
  <2> QED
    BY <1>2, <1>3, <2>1, <2>2, <2>3, <2>4, TimesAreNatural
<1>6. \A h \in IncludeReferences(r) : PartOf(refs, h, r)
  <2> SUFFICES ASSUME NEW h \in IncludeReferences(r) PROVE PartOf(refs, h, r)
    OBVIOUS
  <2>1. <<c, h>> \in E /\ h \in File
    BY <1>2 DEF IncludeReferences
  <2>2. h \in IncludeClosure(File, E, c)
    BY <1>2, <2>1, ReachedGoesOn DEF Reached
  <2> QED
    BY <1>5, <2>2 DEF Tables, Joined
<1>7. \A q \in refs : q = r \/ q.file \in Headers =>
          \A h \in IncludeReferences(q) : PartOf(refs, h, q)
  BY <1>6, FilesAssumption DEF Tables, Joined, Own
<1>8. \A q \in refs : Shaped(q)
  BY DEF Tables
<1>9. ASSUME NEW y \in DOMAIN r.saw
      PROVE  r.saw[y] = disk[y] /\ PartOf(refs, y, r)
  <2>1. y \in Reached(E, c) /\ PartOf(refs, y, r)
    BY <1>1, <1>7, <1>8, PartsBelow
  <2>2. ~(r.at - Gap < mtime[y]) /\ mtime[y] # 0
    <3>1. y = c \/ y \in Headers
      BY <1>1, PartOfHeaders
    <3> QED
      BY <1>4, <1>5, <2>1, <3>1 DEF Reached
  <2>3. ShowsIn(r, y, disk[y], mtime[y])
    BY <1>1, <1>9 DEF ChangesInv, ShowInv, DiskOnly, Watched
  <2> QED
    BY <2>1, <2>2, <2>3 DEF ShowsIn, PrerequisiteChangedAfter, ChangedAfter
<1>10. r.saw = SawNow(c)
  BY <1>1, <1>9, SawNowIfCurrent
<1> QED
  BY <1>9, <1>10

-----------------------------------------------------------------------------
(* The inductive invariant                                                 *)

\* The knowledge times, with the one that a finished parse is about to set
KnowledgeTaken == IF pc = "parsed" THEN [know EXCEPT ![parse.file] = parse.time] ELSE know

MemoryInv ==
    /\ Tables(refs, table, change, disk, mtime)
    /\ OwnTimes(refs, KnowledgeTaken)
    /\ \A r \in refs : Own(r) => r.file \notin deleted
    /\ deleted \subseteq CUs

StoreInv ==
    /\ Tables(snap.refs, snap.files, snap.change, disk, mtime)
    /\ OwnTimes(snap.refs, snap.know)

\* Before a request opens the project the server knows nothing.
UnopenedInv ==
    ~open => /\ table = {} /\ refs = {} /\ deleted = {}
             /\ know = NoTimes /\ change = NoTimes
             /\ toBuild = {} /\ req.file = NoFile /\ pc \notin {"opened", "parse", "parsed"}

\* The removal pass is done when CUs are judged, and what it leaves stays as it is
\* until the next request.  A file that is parsed again while it is current gives
\* the references it has.
RequestInv ==
    /\ pc \in {"collect", "build", "buildAll", "opened", "parse", "parsed", "answer"}
            => NoneLater(change, mtime)
    /\ pc = "collect" => IncludeEdges \subseteq graph
    /\ req.file # NoFile => req.file \in table
    /\ pc = "parse" => ReadAgain(refs, parse.file)
    /\ pc \in {"build", "buildAll", "opened", "parse", "parsed"} /\ ParsesRequestFile(req.op)
            => ReadAgain(refs, req.file)
    /\ pc = "opened" => req.file # NoFile /\ ParsesRequestFile(req.op)

FreshInv == DiskOnly /\ World /\ MemoryInv /\ StoreInv /\ UnopenedInv /\ RequestInv

LEMMA InitFreshInv == DiskOnly /\ Init => FreshInv
<1> SUFFICES ASSUME DiskOnly, Init PROVE FreshInv
  OBVIOUS
<1>1. World
  BY TimesAreNatural DEF Init, World, NoTimes, File
<1>2. MemoryInv
  BY NoPartsNoTables DEF Init, MemoryInv, OwnTimes
<1>3. StoreInv
  BY NoPartsNoTables DEF Init, StoreInv, OwnTimes, NoSnapshot
<1>4. UnopenedInv /\ RequestInv
  BY DEF Init, UnopenedInv, RequestInv, NoRequest
<1> QED
  BY <1>1, <1>2, <1>3, <1>4 DEF FreshInv

\* A parse would read the same as long as the files are the same.
LEMMA SawNowKept ==
    ASSUME UNCHANGED disk, NEW f
    PROVE  SawNow(f)' = SawNow(f)
BY DEF SawNow, DiskEdges, DiskIncludes, OnDisk

LEMMA ReadAgainKept ==
    ASSUME UNCHANGED disk, NEW rs, NEW f, NEW rs2 \in SUBSET rs, ReadAgain(rs, f)
    PROVE  \A r \in rs2 : r.file = f /\ Own(r) => r.saw = SawNow(f)'
BY SawNowKept DEF ReadAgain

\* What a step of a server has to keep when the files are as they were.
LEMMA WorldKept ==
    ASSUME World, UNCHANGED <<disk, mtime, letGo>>
    PROVE  World'
BY DEF World

\* What is saved is as good as what is in memory.
LEMMA StoreSaved ==
    ASSUME TypeOK, NEW gone \in SUBSET CUs, NEW kn \in [File -> Time], NEW rs \in SUBSET Part,
           Tables(rs, table, change, disk, mtime), OwnTimes(rs, kn),
           \A r \in rs : Own(r) => r.file \notin gone,
           StoreInv, UNCHANGED <<disk, mtime>>,
           snap' = snap \/ snap' = Snapshot(gone, kn, rs)
    PROVE  StoreInv'
<1>1. CASE snap' = snap
  BY <1>1 DEF StoreInv
<1>2. CASE snap' = Snapshot(gone, kn, rs)
  <2> DEFINE ch == [f \in File |-> IF f \in table \ gone THEN change[f] ELSE 0]
  <2>1. /\ snap'.refs = rs /\ snap'.files = table \ gone /\ snap'.change = ch
        /\ snap'.know = [f \in File |-> IF f \in table \ gone THEN kn[f] ELSE 0]
    BY <1>2 DEF Snapshot
  <2>2. change \in [File -> Time]
    BY DEF TypeOK, ItemsTypeOK
  <2>3. /\ Tables(rs, table \ gone, ch, disk, mtime)
        /\ \A r \in rs : Own(r) => r.file \in table \ gone
    BY <2>2, TablesAreSaved
  <2>4. OwnTimes(rs, snap'.know)
    BY <2>1, <2>3 DEF OwnTimes, Own, File
  <2> HIDE DEF ch
  <2> QED
    BY <2>1, <2>3, <2>4 DEF StoreInv
<1> QED
  BY <1>1, <1>2

-----------------------------------------------------------------------------
(* Each step keeps it                                                      *)

LEMMA BeginRequestFresh ==
    ASSUME TypeOK, TypeOK', ChangesInv, FreshInv, NEW f \in Asked, NEW op \in Ops,
           BeginRequest(f, op)
    PROVE  FreshInv'
<1> USE DEF FreshInv
<1> DEFINE named == {f} \ {NoFile}
           opens == ~open /\ f # NoFile
<1>1. \A g \in File : ~Held(g) /\ client[g] = NoText
  BY DiskIsRead
<1>2. /\ {g \in File : Held(g) /\ client[g] = NoText} = {}
      /\ {g \in File : client[g] # NoText} = {}
  BY <1>1
<1>4. /\ UNCHANGED <<disk, mtime, snap, graph, parse>> /\ pc = "idle" /\ pc' = "scan"
      /\ req'.file = f /\ (open' <=> open \/ opens)
      /\ know' = IF opens THEN Filled(know, snap.know) ELSE know
      /\ change' = IF opens THEN Filled(change, snap.change) ELSE change
  BY DEF BeginRequest, outside
<1>5. /\ table' = table \cup named \cup (IF opens THEN snap.files ELSE {})
      /\ deleted' = deleted \ named
      /\ refs' = refs \cup (IF opens THEN snap.refs ELSE {})
      /\ letGo' = letGo
      /\ toBuild' \in AddedToBuildList({}, {})
  <2>1. BuiltAgain({}) = {} /\ ChangedNow({}) = {} /\ Without({}) = refs
    BY DEF BuiltAgain, ChangedNow, Without
  <2>2. {g \in {} : disk[g] = NoText} = {}
    OBVIOUS
  <2>3. letGo \in [File -> Time]
    BY DEF TypeOK, ItemsTypeOK
  <2> QED
    BY <1>2, <2>1, <2>2, <2>3, Zenon DEF BeginRequest
<1>6. toBuild' = {}
  BY <1>5 DEF AddedToBuildList
<1> HIDE DEF opens, named
<1>7. DiskOnly' /\ World'
  BY <1>4, <1>5, WorldKept DEF DiskOnly
<1>8. MemoryInv' /\ UnopenedInv'
  <2>1. CASE opens
    <3>1. /\ ~open /\ refs = {} /\ deleted = {} /\ know = NoTimes /\ change = NoTimes
      BY <2>1 DEF UnopenedInv, opens
    <3>2. know' = snap.know /\ change' = snap.change
      BY <1>4, <2>1, <3>1 DEF Filled, NoTimes, TypeOK, SnapshotTypeOK
    <3>3. refs' = snap.refs /\ snap.files \subseteq table' /\ deleted' = {} /\ open'
      BY <1>4, <1>5, <2>1, <3>1
    <3>4. snap.refs \in SUBSET Part
      BY DEF TypeOK, SnapshotTypeOK
    <3>5. Tables(snap.refs, table', snap.change, disk, mtime)
      BY <3>3, <3>4, FewerOwnParts DEF StoreInv
    <3>6. OwnTimes(refs', know')
      BY <3>2, <3>3 DEF StoreInv
    <3> QED
      BY <1>4, <3>2, <3>3, <3>5, <3>6 DEF MemoryInv, UnopenedInv, KnowledgeTaken
  <2>2. CASE ~opens
    <3>1. refs' = refs /\ know' = know /\ change' = change /\ table \subseteq table'
          /\ deleted' \subseteq deleted /\ (open' <=> open)
      BY <1>4, <1>5, <2>2
    <3>2. Tables(refs, table', change, disk, mtime)
      <4>1. refs \in SUBSET Part
        BY DEF TypeOK, ContentTypeOK
      <4> QED
        BY <3>1, <4>1, FewerOwnParts DEF MemoryInv
    <3>3. MemoryInv'
      BY <1>4, <3>1, <3>2 DEF MemoryInv, KnowledgeTaken
    <3>4. UnopenedInv'
      BY <1>4, <1>5, <1>6, <2>2, <3>1 DEF UnopenedInv, opens, named
    <3> QED
      BY <3>3, <3>4
  <2> QED
    BY <2>1, <2>2
<1>9. StoreInv'
  BY <1>4 DEF StoreInv
<1>10. RequestInv'
  BY <1>4, <1>5 DEF RequestInv, named
<1> QED
  BY <1>7, <1>8, <1>9, <1>10

LEMMA ScanFresh ==
    ASSUME TypeOK, TypeOK', ChangesInv, FreshInv, Scan
    PROVE  FreshInv'
<1> USE DEF FreshInv
<1>1. /\ UNCHANGED <<disk, mtime, snap, know, change, letGo, open, req, toBuild>>
      /\ pc = "scan" /\ pc' = "remove"
  BY DEF Scan, outside, request
<1>2. PICK gone \in SUBSET CUs :
        /\ refs' = Without(gone) /\ table \subseteq table'
        /\ deleted' \subseteq deleted \cup gone
        /\ ~open => refs' = refs /\ table' = table /\ deleted' = deleted
  <2>1. CASE open
    <3> DEFINE gone == IF ~req.wasOpen
                       THEN {c \in CUs \cap table : c \notin {x \in CUs : disk[x] # NoText}} ELSE {}
    <3>1. refs' = Without(gone) /\ table \subseteq table' /\ deleted' \subseteq deleted \cup gone
      BY <2>1 DEF Scan
    <3>2. gone \in SUBSET CUs
      OBVIOUS
    <3> QED
      BY <2>1, <3>1, <3>2
  <2>2. CASE ~open
    <3>1. Without({}) = refs
      BY DEF Without
    <3> QED
      BY <2>2, <3>1 DEF Scan
  <2> QED
    BY <2>1, <2>2
<1>3. /\ refs \in SUBSET Part /\ refs' \in SUBSET refs
      /\ \A r \in refs : r \notin refs' => Own(r)
      /\ \A r \in refs' : r.file \notin gone
  BY <1>2 DEF TypeOK, ContentTypeOK, Without, Own
<1>4. Tables(refs', table', change, disk, mtime)
  BY <1>2, <1>3, FewerOwnParts DEF MemoryInv
<1>5. MemoryInv'
  BY <1>1, <1>2, <1>3, <1>4 DEF MemoryInv, KnowledgeTaken, OwnTimes
<1>6. World' /\ StoreInv' /\ UnopenedInv' /\ RequestInv' /\ DiskOnly'
  BY <1>1, <1>2, WorldKept DEF StoreInv, UnopenedInv, RequestInv, DiskOnly
<1> QED
  BY <1>5, <1>6

LEMMA RemoveChangedFresh ==
    ASSUME TypeOK, TypeOK', ChangesInv, FreshInv, RemoveChanged
    PROVE  FreshInv'
<1> USE DEF FreshInv
<1>1. /\ UNCHANGED <<disk, mtime, snap, table, deleted, know, letGo, scanned, open, req,
                     toBuild, parse>>
      /\ pc = "remove" /\ pc' = "collect" /\ graph' = IncludeEdges
  BY DEF RemoveChanged, outside
<1>2. refs' \subseteq refs /\ Tables(refs', table, change', disk, mtime) /\ NoneLater(change', mtime)
  BY RemovalTimes, TablesAfterRemoval DEF MemoryInv
<1>3. MemoryInv'
  BY <1>1, <1>2 DEF MemoryInv, KnowledgeTaken, OwnTimes
<1>4. UnopenedInv'
  <2> SUFFICES ASSUME ~open PROVE UnopenedInv'
    BY <1>1 DEF UnopenedInv
  <2>1. table = {} /\ refs' = {}
    BY <1>2 DEF UnopenedInv
  <2>2. \A f \in File : change'[f] = change[f]
    BY <2>1, RemovalTimes
  <2>3. change' = change
    BY <2>2 DEF TypeOK, ItemsTypeOK
  <2> QED
    BY <1>1, <2>1, <2>3 DEF UnopenedInv
<1>5. IncludeEdges' \subseteq graph'
  BY <1>1, <1>2 DEF IncludeEdges
<1>6. World' /\ StoreInv' /\ RequestInv' /\ DiskOnly'
  BY <1>1, <1>2, <1>5, WorldKept DEF StoreInv, RequestInv, DiskOnly
<1> QED
  BY <1>3, <1>4, <1>6

LEMMA CollectFresh ==
    ASSUME TypeOK, TypeOK', ChangesInv, FreshInv, Collect
    PROVE  FreshInv'
<1> USE DEF FreshInv
<1> DEFINE f     == req.file
           times == [g \in File |-> ChangeTimeOf(g)]
           stale == {c \in CUs \cap table : KnowledgeIsOutOfDate(graph, times, c)}
<1>1. /\ UNCHANGED <<disk, mtime, snap, table, deleted, know, change, letGo, open, req, parse>>
      /\ pc = "collect" /\ pc' = "build"
  BY DEF Collect, outside, items
<1>2. /\ refs' = refs \/ (f \in stale /\ refs' = Without({f}))
      /\ ParsesRequestFile(req.op) /\ f \in stale => refs' = Without({f})
  BY DEF Collect
<1>3. /\ refs \in SUBSET Part /\ refs' \in SUBSET refs
      /\ \A r \in refs : r \notin refs' => Own(r)
  BY <1>2 DEF TypeOK, ContentTypeOK, Without, Own
<1>4. MemoryInv'
  <2>1. Tables(refs', table, change, disk, mtime)
    BY <1>3, FewerOwnParts DEF MemoryInv
  <2> QED
    BY <1>1, <1>3, <2>1 DEF MemoryInv, KnowledgeTaken, OwnTimes
<1>5. UnopenedInv'
  <2> SUFFICES ASSUME ~open PROVE UnopenedInv'
    BY <1>1 DEF UnopenedInv
  <2>1. table = {} /\ refs = {} /\ toBuild = {} /\ f = NoFile
    BY DEF UnopenedInv
  <2>2. toBuild' = {}
    <3>1. stale = {}
      BY <2>1
    <3>2. \A l : l \in AddedToBuildList({}, {}) => l = {}
      BY DEF AddedToBuildList
    <3>3. /\ {c \in stale \ deleted : Held(c)} = {} /\ {f} \cap stale = {}
      BY <3>1
    <3>4. \E l1 \in AddedToBuildList({}, {}) : \E l2 \in AddedToBuildList(l1, {}) :
              toBuild' \in AddedToBuildList(l2, {})
      BY <2>1, <3>3, Zenon DEF Collect
    <3> QED
      BY <3>2, <3>4
  <2> QED
    BY <1>1, <1>3, <2>1, <2>2 DEF UnopenedInv
<1>6. ASSUME ParsesRequestFile(req.op) PROVE ReadAgain(refs', f)
  <2>1. CASE f \in stale
    BY <1>2, <1>6, <2>1 DEF ReadAgain, Without
  <2>2. CASE f \notin stale
    <3> SUFFICES ASSUME NEW r \in refs, r.file = f, Own(r) PROVE r.saw = SawNow(f)
      BY <1>3 DEF ReadAgain
    <3>1. f \in CUs /\ f \in table
      BY FilesAssumption DEF Own, RequestInv, File
    <3>2. ~KnowledgeIsOutOfDate(graph, times, f)
      BY <2>2, <3>1
    <3>5. IncludeEdges \subseteq graph
      BY <1>1 DEF RequestInv
    <3>3. \A q \in refs : \A h \in IncludeReferences(q) : <<q.file, h>> \in graph
      BY <3>5, EdgesOfReferences, Zenon
    <3>4. r.at = know[r.file]
      BY <1>1 DEF MemoryInv, OwnTimes, KnowledgeTaken
    <3> QED
      BY <3>2, <3>3, <3>4, CurrentHasAll DEF MemoryInv
  <2> QED
    BY <2>1, <2>2
<1>7. RequestInv'
  <2>1. ParsesRequestFile(req.op) => ReadAgain(refs, req.file)'
    BY <1>1, <1>6, SawNowKept DEF ReadAgain
  <2> QED
    BY <1>1, <2>1 DEF RequestInv
<1>8. World' /\ StoreInv' /\ DiskOnly'
  BY <1>1, WorldKept DEF StoreInv, DiskOnly
<1> QED
  BY <1>4, <1>5, <1>7, <1>8

LEMMA BuildCUFresh ==
    ASSUME TypeOK, TypeOK', ChangesInv, FreshInv, NEW c \in CUs, BuildCU(c)
    PROVE  FreshInv'
<1> USE DEF FreshInv
<1>1. /\ UNCHANGED <<disk, mtime, table, know, change, letGo, open, req>>
      /\ pc \in {"build", "buildAll"} /\ c \in toBuild /\ refs' = Without({c})
      /\ deleted' \subseteq deleted \cup {c}
      /\ \/ Exists(c) /\ pc' = "parse" /\ parse'.file = c /\ snap' = snap
         \/ pc' = pc /\ parse' = parse /\ CountBuilt(deleted', know, refs')
  <2>1. CASE Exists(c)
    BY <2>1 DEF BuildCU, outside
  <2>2. CASE ~Exists(c)
    BY <2>2 DEF BuildCU, outside
  <2> QED
    BY <2>1, <2>2
<1>2. /\ refs \in SUBSET Part /\ refs' \in SUBSET refs /\ refs' \in SUBSET Part
      /\ \A r \in refs : r \notin refs' => Own(r)
      /\ \A r \in refs' : r.file # c
  BY <1>1 DEF TypeOK, ContentTypeOK, Without, Own
<1>3. Tables(refs', table, change, disk, mtime)
  BY <1>2, FewerOwnParts DEF MemoryInv
<1>4. OwnTimes(refs', know)
  BY <1>1, <1>2 DEF MemoryInv, KnowledgeTaken, OwnTimes
<1>5. deleted' \in SUBSET CUs /\ \A r \in refs' : Own(r) => r.file \notin deleted'
  BY <1>1, <1>2 DEF MemoryInv
<1>6. MemoryInv'
  BY <1>1, <1>3, <1>4, <1>5 DEF MemoryInv, KnowledgeTaken
<1>7. StoreInv'
  <2>1. snap' = snap \/ snap' = Snapshot(deleted', know, refs')
    BY <1>1 DEF CountBuilt
  <2>2. know \in [File -> Time]
    BY DEF TypeOK, ItemsTypeOK
  <2> QED
    BY <1>1, <1>2, <1>3, <1>4, <1>5, <2>1, <2>2, StoreSaved
<1>8. UnopenedInv'
  BY <1>1 DEF UnopenedInv
<1>9. RequestInv'
  <2>1. ParsesRequestFile(req.op) => ReadAgain(refs, req.file)'
    BY <1>1, <1>2, SawNowKept DEF RequestInv, ReadAgain
  <2>2. pc' = "parse" => ReadAgain(refs, parse.file)'
    BY <1>1, <1>2 DEF ReadAgain
  <2> QED
    BY <1>1, <2>1, <2>2 DEF RequestInv
<1>10. World' /\ DiskOnly'
  BY <1>1, WorldKept DEF DiskOnly
<1> QED
  BY <1>6, <1>7, <1>8, <1>9, <1>10

LEMMA ParseFresh ==
    ASSUME TypeOK, TypeOK', ChangesInv, FreshInv, Parse
    PROVE  FreshInv'
<1> USE DEF FreshInv
<1> DEFINE f == parse.file
           t == parse.time
<1>1. /\ UNCHANGED <<disk, mtime, snap, know, change, letGo, open, req, toBuild, parse>>
      /\ pc = "parse" /\ pc' = "parsed"
      /\ refs' = Renewed(Emits(f, t)) /\ table' = table \cup ReachNow(f)
      /\ deleted' = deleted \ ReachNow(f)
  BY DEF Parse, outside, request
<1>2. f \in File /\ Openable(f) /\ t \in Time
  BY DEF Parse, TypeOK, RequestTypeOK
<1>3. OwnTimes(refs, know) /\ ReadAgain(refs, f) /\ \A r \in refs : Shaped(r)
  BY <1>1 DEF MemoryInv, KnowledgeTaken, RequestInv, Tables
<1>4. Tables(refs', table', change, disk, mtime)
  BY <1>1, <1>2, TablesAfterParse DEF MemoryInv, RequestInv
<1>5. /\ OwnTimes(refs', [know EXCEPT ![f] = t])
      /\ \A g \in File : ReadAgain(refs, g) => ReadAgain(refs', g)
  BY <1>1, <1>2, <1>3, OwnTimesAfterParse
<1>6. \A r \in refs' : Own(r) => r.file \notin deleted'
  <2>1. \A p \in Emits(f, t) : p.file \in ReachNow(f)
    BY <1>2, NewParts
  <2> QED
    BY <1>1, <2>1 DEF Renewed, MemoryInv
<1>7. MemoryInv'
  BY <1>1, <1>4, <1>5, <1>6 DEF MemoryInv, KnowledgeTaken
<1>8. UnopenedInv'
  BY <1>1 DEF UnopenedInv
<1>9. RequestInv'
  <2>1. ASSUME ParsesRequestFile(req.op) PROVE ReadAgain(refs, req.file)'
    <3>1. ReadAgain(refs, req.file)
      BY <1>1, <2>1 DEF RequestInv
    <3>2. CASE req.file \in File
      <4>1. ReadAgain(refs', req.file)
        BY <1>5, <3>1, <3>2
      <4> QED
        BY <1>1, <4>1, SawNowKept DEF ReadAgain
    <3>3. CASE req.file \notin File
      BY <1>1, <3>3 DEF ReadAgain, Own, File
    <3> QED
      BY <3>2, <3>3
  <2> QED
    BY <1>1, <2>1 DEF RequestInv
<1>10. World' /\ StoreInv' /\ DiskOnly'
  BY <1>1, WorldKept DEF StoreInv, DiskOnly
<1> QED
  BY <1>7, <1>8, <1>9, <1>10

LEMMA AfterParseFresh ==
    ASSUME TypeOK, TypeOK', ChangesInv, FreshInv, EndParse \/ ParseFails
    PROVE  FreshInv'
<1> USE DEF FreshInv
<1>1. PICK kn \in [File -> Time] :
        pc \in {"parse", "parsed"} /\ AfterParse(kn) /\ kn = KnowledgeTaken
  <2>1. CASE EndParse
    BY <2>1 DEF EndParse, KnowledgeTaken, TypeOK, ItemsTypeOK, RequestTypeOK
  <2>2. CASE ParseFails
    BY <2>2 DEF ParseFails, KnowledgeTaken, TypeOK, ItemsTypeOK
  <2> QED
    BY <2>1, <2>2
<1>2. /\ UNCHANGED <<disk, mtime, table, deleted, change, letGo, refs, open, req, toBuild>>
      /\ know' = kn /\ pc' = parse.then
      /\ snap' = snap \/ CountBuilt(deleted, kn, refs)
  BY <1>1 DEF AfterParse, outside
<1>3. pc' \in {"build", "buildAll", "answer"}
  BY <1>1, <1>2 DEF TypeOK, RequestTypeOK
<1>4. refs \in SUBSET Part /\ OwnTimes(refs, kn)
  BY <1>1 DEF TypeOK, ContentTypeOK, MemoryInv
<1>5. MemoryInv'
  BY <1>2, <1>3, <1>4 DEF MemoryInv, KnowledgeTaken
<1>6. StoreInv'
  <2>1. snap' = snap \/ snap' = Snapshot(deleted, kn, refs)
    BY <1>2 DEF CountBuilt
  <2>2. deleted \in SUBSET CUs
    BY DEF MemoryInv
  <2> QED
    BY <1>2, <1>4, <2>1, <2>2, StoreSaved DEF MemoryInv
<1>7. UnopenedInv'
  BY <1>1, <1>2 DEF UnopenedInv
<1>8. RequestInv'
  <2>1. ASSUME ParsesRequestFile(req.op) PROVE ReadAgain(refs, req.file)'
    BY <1>1, <1>2, <2>1, SawNowKept DEF RequestInv, ReadAgain
  <2> QED
    BY <1>1, <1>2, <1>3, <2>1 DEF RequestInv
<1>9. World' /\ DiskOnly'
  BY <1>2, WorldKept DEF DiskOnly
<1> QED
  BY <1>5, <1>6, <1>7, <1>8, <1>9

\* The steps of a request that only choose what is done next
LEMMA PhaseFresh ==
    ASSUME TypeOK, TypeOK', ChangesInv, FreshInv, CollectAll \/ ProcessFile \/ SinglePass \/ EndRequest
    PROVE  FreshInv'
<1> USE DEF FreshInv
<1>1. /\ UNCHANGED <<disk, mtime, snap, table, deleted, know, change, letGo, refs, open>>
      /\ pc \in {"build", "buildAll", "opened", "answer"} /\ pc' # "parsed"
  BY DEF CollectAll, ProcessFile, SinglePass, EndRequest, outside, items
<1>2. MemoryInv' /\ StoreInv' /\ World' /\ DiskOnly'
  BY <1>1, WorldKept DEF MemoryInv, StoreInv, KnowledgeTaken, DiskOnly
<1>3. ASSUME req' = req, pc \in {"build", "buildAll", "opened"}, ParsesRequestFile(req.op)
      PROVE  ReadAgain(refs, req.file)'
  BY <1>1, <1>3, SawNowKept DEF RequestInv, ReadAgain
<1>4. UnopenedInv' /\ RequestInv'
  <2>1. CASE CollectAll
    <3>1. open /\ pc = "build" /\ pc' = "buildAll" /\ UNCHANGED <<req, parse, graph>>
      BY <2>1 DEF CollectAll
    <3> QED
      BY <1>1, <1>3, <3>1 DEF UnopenedInv, RequestInv
  <2>2. CASE ProcessFile
    <3>1. /\ pc \in {"build", "buildAll"} /\ UNCHANGED <<req, toBuild, parse>>
          /\ \/ req.file # NoFile /\ ParsesRequestFile(req.op) /\ pc' = "opened"
             \/ pc' = "answer"
      BY <2>2 DEF ProcessFile, request
    <3> QED
      BY <1>1, <1>3, <3>1 DEF UnopenedInv, RequestInv
  <2>4. CASE SinglePass
    <3>1. /\ pc = "opened" /\ UNCHANGED <<req, toBuild>>
          /\ pc' = "parse" /\ parse'.file = req.file
      BY <2>4 DEF SinglePass
    <3>2. ReadAgain(refs, parse.file)'
      BY <1>3, <3>1 DEF ReadAgain, RequestInv
    <3> QED
      BY <1>1, <1>3, <3>1, <3>2 DEF UnopenedInv, RequestInv
  <2>3. CASE EndRequest
    <3>1. pc' = "idle" /\ req' = NoRequest /\ toBuild' = toBuild
      BY <2>3 DEF EndRequest
    <3> QED
      BY <1>1, <3>1 DEF UnopenedInv, RequestInv, NoRequest
  <2> QED
    BY <2>1, <2>2, <2>3, <2>4
<1> QED
  BY <1>2, <1>4

LEMMA StopFresh ==
    ASSUME TypeOK, TypeOK', ChangesInv, FreshInv, Exit \/ Crash
    PROVE  FreshInv'
<1> USE DEF FreshInv
<1>1. /\ UNCHANGED <<disk, mtime>>
      /\ table' = {} /\ refs' = {} /\ deleted' = {} /\ know' = NoTimes /\ change' = NoTimes
      /\ letGo' = NoTimes /\ toBuild' = {} /\ ~open' /\ pc' = "idle" /\ req' = NoRequest
  BY DEF Exit, Crash, ServerStarts
<1>2. World' /\ DiskOnly'
  BY <1>1 DEF World, DiskOnly, NoTimes
<1>3. MemoryInv'
  BY <1>1, NoPartsNoTables DEF MemoryInv, OwnTimes
<1>4. UnopenedInv' /\ RequestInv'
  BY <1>1 DEF UnopenedInv, RequestInv, NoRequest
<1>5. StoreInv'
  <2>1. CASE snap' = snap
    BY <1>1, <2>1 DEF StoreInv
  <2>2. CASE Exit /\ snap' # snap
    <3>1. know = [f \in File |-> IF Held(f) THEN 0 ELSE know[f]] /\ know \in [File -> Time]
      BY DiskIsRead DEF TypeOK, ItemsTypeOK
    <3>2. snap' = Snapshot(deleted, know, refs) /\ pc = "idle"
      BY <2>2, <3>1 DEF Exit
    <3>3. refs \in SUBSET Part /\ deleted \in SUBSET CUs /\ OwnTimes(refs, know)
      BY <3>2 DEF TypeOK, ContentTypeOK, MemoryInv, KnowledgeTaken
    <3> QED
      BY <1>1, <3>1, <3>2, <3>3, StoreSaved DEF MemoryInv
  <2> QED
    BY <2>1, <2>2 DEF Exit, Crash
<1> QED
  BY <1>2, <1>3, <1>4, <1>5

LEMMA DiskChangeFresh ==
    ASSUME TypeOK, TypeOK', ChangesInv, FreshInv, NEW f \in File, DiskEdit(f) \/ DiskRemove(f)
    PROVE  FreshInv'
<1> USE DEF FreshInv
<1>1. /\ UNCHANGED <<snap, table, deleted, know, change, letGo, refs, open, pc, req, toBuild>>
      /\ pc = "idle"
  BY DEF DiskEdit, DiskRemove, DiskOnly, items, request
<1>2. change \in [File -> Time] /\ snap.change \in [File -> Time]
      /\ refs \in SUBSET Parts /\ snap.refs \in SUBSET Parts
  BY DEF TypeOK, ItemsTypeOK, SnapshotTypeOK, Parts
<1>3. MemoryInv'
  <2>1. Tables(refs, table, change, disk', mtime')
    BY <1>2, TablesAfterChange DEF MemoryInv
  <2> QED
    BY <1>1, <2>1 DEF MemoryInv, KnowledgeTaken
<1>4. StoreInv'
  <2>1. Tables(snap.refs, snap.files, snap.change, disk', mtime')
    BY <1>2, TablesAfterChange DEF StoreInv
  <2> QED
    BY <1>1, <2>1 DEF StoreInv
<1>5. UnopenedInv' /\ RequestInv' /\ DiskOnly'
  BY <1>1 DEF UnopenedInv, RequestInv, DiskOnly
<1>6. World'
  <2>1. CASE DiskEdit(f)
    <3>1. PICK lag \in 0..MaxLag : /\ FreshStamp(clock - lag)
                                   /\ mtime' = [mtime EXCEPT ![f] = clock - lag]
      BY <2>1 DEF DiskEdit
    <3>2. mtime[f] < clock - lag
      BY <3>1 DEF FreshStamp
    <3>3. clock - lag # 0
      <4>1. mtime[f] \in Nat
        BY TimesAreNatural DEF TypeOK, WorldTypeOK
      <4>2. clock \in Nat /\ lag \in Int
        BY PartTimes, TimesAreNatural
      <4> QED
        BY <3>2, <4>1, <4>2
    <3>4. disk' = [disk EXCEPT ![f] = edits'] /\ edits' # NoText
      BY <2>1, TimesAreNatural DEF DiskEdit, TypeOK, WorldTypeOK
    <3> QED
      BY <1>1, <3>1, <3>3, <3>4 DEF World, TypeOK, WorldTypeOK
  <2>2. CASE DiskRemove(f)
    <3>1. f \notin Headers /\ disk' = [disk EXCEPT ![f] = NoText] /\ mtime' = [mtime EXCEPT ![f] = 0]
      BY <2>2 DEF DiskRemove, DiskOnly
    <3> QED
      BY <1>1, <3>1 DEF World, TypeOK, WorldTypeOK
  <2> QED
    BY <2>1, <2>2
<1> QED
  BY <1>3, <1>4, <1>5, <1>6

\* No other step changes a file.
LEMMA NothingElseHappens ==
    ASSUME ChangesInv, FreshInv, NEW f \in File
    PROVE  ~DiskMoveBack(f) /\ ~UserEdit(f) /\ ~UserRevert(f) /\ ~UserSave(f) /\ ~Tick
<1>1. client[f] = NoText
  BY DiskIsRead DEF FreshInv
<1> QED
  BY <1>1 DEF FreshInv, DiskOnly, DiskMoveBack, UserEdit, UserRevert, UserSave, Tick

LEMMA StepFresh ==
    ASSUME TypeOK, TypeOK', ChangesInv, FreshInv, [Next]_vars
    PROVE  FreshInv'
<1>1. CASE \E f \in Asked, op \in Ops : BeginRequest(f, op)
  BY <1>1, BeginRequestFresh
<1>2. CASE Server
  BY <1>2, ScanFresh, RemoveChangedFresh, CollectFresh, BuildCUFresh, ParseFresh,
     AfterParseFresh, PhaseFresh DEF Server
<1>3. CASE Environment
  <2>1. ~Tick
    BY DEF FreshInv, DiskOnly, Tick
  <2> QED
    BY <1>3, <2>1, NothingElseHappens, DiskChangeFresh, StopFresh DEF Environment
<1>4. CASE UNCHANGED vars
  <2>1. UNCHANGED <<disk, mtime, snap, table, deleted, know, change, letGo, scanned, refs,
                    open, pc, req, graph, toBuild, parse>>
    BY <1>4 DEF vars, outside, items, request
  <2>2. MemoryInv' /\ StoreInv' /\ UnopenedInv' /\ World' /\ DiskOnly'
    BY <2>1, WorldKept DEF FreshInv, MemoryInv, StoreInv, UnopenedInv, KnowledgeTaken, DiskOnly
  <2>3. RequestInv'
    BY <2>1, SawNowKept DEF FreshInv, RequestInv, ReadAgain, IncludeEdges
  <2> QED
    BY <2>2, <2>3 DEF FreshInv
<1> QED
  BY <1>1, <1>2, <1>3, <1>4 DEF Next

LEMMA FreshAlways == DiskOnly /\ Spec => [](TypeOK /\ ChangesInv /\ FreshInv)
<1>1. Spec => []TypeOK
  BY TypeCorrect
<1>2. Spec => []ChangesInv
  BY ChangesInvAlways
<1>3. TypeOK /\ TypeOK' /\ ChangesInv /\ FreshInv /\ [Next]_vars => FreshInv'
  BY StepFresh
<1> QED
  BY <1>1, <1>2, <1>3, InitFreshInv, PTL DEF Spec

-----------------------------------------------------------------------------
(* The theorems on files that change only on disk                          *)

\* The removal pass is one step, and no other ends in the collection.
LEMMA RemovalIsOneStep ==
    ASSUME DiskOnly, Next, pc = "remove", pc' = "collect"
    PROVE  RemoveChanged
<1>1. ~Environment
  BY DEF DiskOnly, Environment, DiskEdit, DiskRemove, DiskMoveBack, UserEdit, UserRevert, UserSave,
         Tick, Exit, Crash, ServerStarts
<1>2. ~\E f \in Asked, op \in Ops : BeginRequest(f, op)
  BY DEF BeginRequest
<1>3. Server
  BY <1>1, <1>2 DEF Next
<1> QED
  BY <1>3 DEF Server, Scan, Collect, BuildCU, Parse, ParseFails, EndParse, CollectAll, ProcessFile,
              SinglePass, EndRequest

\* ADR-0035, "a file's references are removed when its content changes": after the
\* removal pass of any request of any project no header that the pass had met has a
\* reference from another text than the one on disk, its own or one it includes,
\* however often the server was killed and went on from a snapshot.
THEOREM NoGhostSurvives == DiskOnly /\ Spec => NoDatedGhostsAfterRemoval
<1>1. TypeOK /\ ChangesInv /\ FreshInv /\ [Next]_vars =>
        [pc = "remove" /\ pc' = "collect" => \A r \in refs' : r.dated => ~IsGhost(r)]_vars
  <2> SUFFICES ASSUME TypeOK, ChangesInv, FreshInv, Next, pc = "remove", pc' = "collect",
                      NEW r \in refs', r.dated
               PROVE  ~IsGhost(r)
    OBVIOUS
  <2>1. RemoveChanged
    BY RemovalIsOneStep DEF FreshInv
  <2>2. r \in refs /\ r.file \notin Changed \cup Includers
    BY <2>1, RemovalTimes DEF FreshInv
  <2> SUFFICES ASSUME r.file \in Headers, NEW g \in DOMAIN r.saw
               PROVE  r.saw[g] = Reads(g)
    BY DEF IsGhost
  <2>3. r.saw[g] = disk[g]
    BY <2>2, NoGhostsAreLeft DEF FreshInv, MemoryInv
  <2>4. g \in File
    BY <2>2, PartFiles DEF TypeOK, ContentTypeOK
  <2> QED
    BY <2>3, <2>4, DiskIsRead DEF FreshInv
<1> QED
  BY <1>1, FreshAlways, PTL DEF Spec, NoDatedGhostsAfterRemoval

\* ADR-0032, an input that changed after the knowledge makes the CU out of date: at the
\* answer to any request, a CU that is judged current has, in its own file, only
\* references that were read from the texts the user has now, its own and those of every
\* header it includes, at any depth and although the graph is made of those references.
THEOREM StaleIsAlwaysKnown == DiskOnly /\ Spec => []StaleIsKnown
<1>1. ASSUME TypeOK, ChangesInv, FreshInv PROVE StaleIsKnown
  <2> DEFINE times == [f \in File |-> ChangeTimeOf(f)]
  <2> SUFFICES ASSUME pc = "answer", NEW r \in refs, r.file \in CUs, r.by = r.file,
                      ~KnowledgeIsOutOfDate(IncludeEdges, times, r.by),
                      NEW g \in DOMAIN r.saw
               PROVE  r.saw[g] = Sees(g)
    BY <1>1 DEF StaleIsKnown
  <2>1. r.at = know[r.file]
    BY <1>1 DEF FreshInv, MemoryInv, OwnTimes, KnowledgeTaken, Own
  <2>2. r.saw[g] = disk[g]
    BY <1>1, <2>1, EdgesOfReferences, CurrentHasAll DEF FreshInv, MemoryInv, Own
  <2>3. g \in File
    BY <1>1, PartFiles DEF TypeOK, ContentTypeOK
  <2> QED
    BY <1>1, <2>2, <2>3, DiskIsRead DEF FreshInv
<1>2. TypeOK /\ ChangesInv /\ FreshInv => StaleIsKnown
  BY <1>1
<1> QED
  BY <1>2, FreshAlways, PTL

-----------------------------------------------------------------------------
(* What has been removed for a parse                                       *)
(*                                                                         *)
(* A request CU that is out of date loses its own references in the        *)
(* collection and gets them back from the parse for the operation.  When   *)
(* the snapshot is saved in between and the server then stops, the next    *)
(* one has a knowledge time without references (README, Freshness).  The   *)
(* last two theorems are about servers that do not stop, or requests       *)
(* that do not parse the request file.                                     *)

NothingCutShort == MaxRestarts = 0 \/ \A op \in Ops : ~ParsesRequestFile(op)

OwnOf(rs, c) == \E r \in rs : r.file = c
BeingParsed(c) == pc \in {"parse", "parsed"} /\ parse.file = c
Stripped(c) == strip /\ req.file = c /\ pc # "answer"

\* A CU with a knowledge time has references in its own file, unless they are about
\* to be made.
OwnInv ==
    \A c \in CUs : disk[c] # NoText /\ know[c] # 0 =>
        BeingParsed(c) \/ Stripped(c) \/ OwnOf(refs, c)

ParseInv ==
    /\ pc = "parsed" /\ parse.file \in CUs => OwnOf(refs, parse.file)
    /\ pc \in {"parse", "parsed"} /\ parse.then = "answer" => parse.file = req.file
    /\ strip => /\ ParsesRequestFile(req.op) /\ req.file \in CUs
                /\ pc \in {"build", "buildAll", "opened", "parse", "parsed", "answer"}

\* A snapshot that may be loaded is like that, too.
SavedInv ==
    /\ MaxRestarts = 0 => restarts = 0 /\ (~open => snap = NoSnapshot)
    /\ (\A op \in Ops : ~ParsesRequestFile(op)) =>
            \A c \in CUs : disk[c] # NoText /\ snap.know[c] # 0 => OwnOf(snap.refs, c)

KeptInv == NothingCutShort /\ OwnInv /\ ParseInv /\ SavedInv

LEMMA InitKeptInv == NothingCutShort /\ Init => KeptInv
BY DEF Init, KeptInv, OwnInv, ParseInv, SavedInv, NoTimes, NoSnapshot, File

\* The snapshot that is saved has what the table has.
LEMMA SavedKept ==
    ASSUME TypeOK, KeptInv, NEW gone, NEW kn \in [File -> Time], NEW rs,
           open, UNCHANGED <<disk, restarts, open>>,
           snap' = snap \/ snap' = Snapshot(gone, kn, rs),
           (\A op \in Ops : ~ParsesRequestFile(op)) =>
               \A c \in CUs : disk[c] # NoText /\ kn[c] # 0 => OwnOf(rs, c)
    PROVE  SavedInv'
<1>1. CASE snap' = snap
  BY <1>1 DEF KeptInv, SavedInv
<1>2. CASE snap' = Snapshot(gone, kn, rs)
  <2>1. /\ snap'.refs = rs
        /\ snap'.know = [f \in File |-> IF f \in table \ gone THEN kn[f] ELSE 0]
    BY <1>2 DEF Snapshot
  <2>2. \A c \in CUs : snap'.know[c] # 0 => kn[c] # 0
    BY <2>1 DEF File
  <2> QED
    BY <2>1, <2>2 DEF KeptInv, SavedInv
<1> QED
  BY <1>1, <1>2

\* No request strips when none parses its file.
LEMMA NothingStripped ==
    ASSUME TypeOK, KeptInv, \A op \in Ops : ~ParsesRequestFile(op)
    PROVE  ~strip
<1>1. req.op \in Ops \cup {"query"}
  BY DEF TypeOK, RequestTypeOK
<1> QED
  BY <1>1 DEF KeptInv, ParseInv, ParsesRequestFile

\* The steps that leave what a CU has as it is
LEMMA NothingGone ==
    ASSUME KeptInv, UNCHANGED <<restarts, snap, know, strip, open, parse, req>>,
           \A c \in CUs : disk'[c] # NoText => disk[c] # NoText,
           \A c \in CUs : disk'[c] # NoText /\ OwnOf(refs, c) => OwnOf(refs', c),
           pc \notin {"parse", "parsed"} /\ pc' \notin {"parse", "parsed"},
           ~strip \/ pc' \in {"buildAll", "opened"}
           \/ (pc' = "answer" /\ (req.file \in CUs => disk'[req.file] = NoText))
    PROVE  KeptInv'
<1>1. OwnInv'
  BY DEF KeptInv, OwnInv, BeingParsed, Stripped
<1>2. ParseInv'
  BY DEF KeptInv, ParseInv
<1>3. SavedInv'
  BY DEF KeptInv, SavedInv
<1> QED
  BY <1>1, <1>2, <1>3 DEF KeptInv, NothingCutShort

LEMMA BeginRequestKept ==
    ASSUME TypeOK, ChangesInv, FreshInv, KeptInv, NEW f \in Asked, NEW op \in Ops,
           BeginRequest(f, op)
    PROVE  KeptInv'
<1> DEFINE opens == ~open /\ f # NoFile
<1>1. /\ UNCHANGED <<disk, restarts, snap, parse>>
      /\ pc = "idle" /\ pc' = "scan" /\ ~strip' /\ (open' <=> open \/ opens)
      /\ know' = IF opens THEN Filled(know, snap.know) ELSE know
  BY DEF BeginRequest, outside
<1>2. refs' = Without({g \in {x \in File : Held(x) /\ client[x] = NoText} : disk[g] = NoText})
              \cup (IF opens THEN snap.refs ELSE {})
  BY DEF BeginRequest
<1>3. {x \in File : Held(x) /\ client[x] = NoText} = {}
  BY DiskIsRead DEF FreshInv
<1>4. refs' = refs \cup (IF opens THEN snap.refs ELSE {})
  BY <1>2, <1>3 DEF Without
<1> HIDE DEF opens
<1>5. OwnInv'
  <2>1. CASE opens
    <3>1. ~open /\ know = NoTimes
      BY <2>1 DEF opens, FreshInv, UnopenedInv
    <3>2. know' = snap.know
      BY <1>1, <2>1, <3>1 DEF Filled, NoTimes, TypeOK, SnapshotTypeOK
    <3>3. \A c \in CUs : disk[c] # NoText /\ snap.know[c] # 0 => OwnOf(snap.refs, c)
      <4>1. CASE MaxRestarts = 0
        BY <3>1, <4>1 DEF KeptInv, SavedInv, NoSnapshot, NoTimes, File
      <4>2. CASE \A o \in Ops : ~ParsesRequestFile(o)
        BY <4>2 DEF KeptInv, SavedInv
      <4> QED
        BY <4>1, <4>2 DEF KeptInv, NothingCutShort
    <3> QED
      BY <1>1, <1>4, <2>1, <3>2, <3>3 DEF OwnInv, OwnOf
  <2>2. CASE ~opens
    BY <1>1, <1>4, <2>2 DEF KeptInv, OwnInv, ParseInv, OwnOf, BeingParsed, Stripped
  <2> QED
    BY <2>1, <2>2
<1>6. ParseInv' /\ SavedInv'
  BY <1>1 DEF KeptInv, ParseInv, SavedInv
<1> QED
  BY <1>5, <1>6 DEF KeptInv, NothingCutShort

LEMMA ScanKept ==
    ASSUME TypeOK, FreshInv, KeptInv, Scan
    PROVE  KeptInv'
<1>1. /\ UNCHANGED <<disk, restarts, snap, know, strip, open, parse, req>>
      /\ pc = "scan" /\ pc' = "remove"
  BY DEF Scan, outside, request
<1>2. \A r \in refs : r.file \in CUs /\ disk[r.file] # NoText => r \in refs'
  <2>1. CASE open
    <3>1. refs' = Without(IF ~req.wasOpen
                          THEN {c \in CUs \cap table : c \notin {x \in CUs : disk[x] # NoText}}
                          ELSE {})
      BY <2>1 DEF Scan
    <3> QED
      BY <3>1 DEF Without
  <2>2. CASE ~open
    BY <2>2 DEF Scan
  <2> QED
    BY <2>1, <2>2
<1>3. \A c \in CUs : disk'[c] # NoText /\ OwnOf(refs, c) => OwnOf(refs', c)
  BY <1>1, <1>2 DEF OwnOf
<1> QED
  BY <1>1, <1>3, NothingGone DEF KeptInv, ParseInv

LEMMA RemoveChangedKept ==
    ASSUME TypeOK, ChangesInv, FreshInv, KeptInv, RemoveChanged
    PROVE  KeptInv'
<1>1. /\ UNCHANGED <<disk, restarts, snap, know, strip, open, parse, req>>
      /\ pc = "remove" /\ pc' = "collect"
  BY DEF RemoveChanged, outside
<1>2. refs' = {r \in refs : r.file \notin Changed \cup Includers}
  BY RemovalTimes DEF FreshInv
<1>3. \A c \in CUs : OwnOf(refs, c) => OwnOf(refs', c)
  BY <1>2, FilesAssumption DEF OwnOf, Changed, Includers
<1> QED
  BY <1>1, <1>3, NothingGone DEF KeptInv, ParseInv

LEMMA CollectKept ==
    ASSUME TypeOK, FreshInv, KeptInv, Collect
    PROVE  KeptInv'
<1>1. /\ UNCHANGED <<disk, restarts, snap, know, open, parse, req>>
      /\ pc = "collect" /\ pc' = "build"
  BY DEF Collect, outside, items
<1>2. /\ strip' => ParsesRequestFile(req.op) /\ req.file \in CUs
      /\ refs' = IF strip' THEN Without({req.file}) ELSE refs
  BY DEF Collect
<1>3. OwnInv'
  <2> SUFFICES ASSUME NEW c \in CUs, disk[c] # NoText, know[c] # 0,
                      ~(strip' /\ req.file = c)
               PROVE  OwnOf(refs', c)
    BY <1>1 DEF OwnInv, Stripped
  <2>1. OwnOf(refs, c)
    BY <1>1 DEF KeptInv, OwnInv, ParseInv, BeingParsed, Stripped
  <2> QED
    BY <1>2, <2>1 DEF OwnOf, Without
<1>4. ParseInv' /\ SavedInv'
  BY <1>1, <1>2 DEF KeptInv, ParseInv, SavedInv
<1> QED
  BY <1>3, <1>4 DEF KeptInv, NothingCutShort

LEMMA BuildCUKept ==
    ASSUME TypeOK, ChangesInv, FreshInv, KeptInv, NEW c \in CUs, BuildCU(c)
    PROVE  KeptInv'
<1>1. /\ UNCHANGED <<disk, restarts, know, open, req, strip>>
      /\ pc \in {"build", "buildAll"} /\ c \in toBuild /\ refs' = Without({c})
      /\ \/ /\ pc' = "parse" /\ parse'.file = c /\ parse'.then = pc /\ snap' = snap
         \/ /\ ~Exists(c) /\ pc' = pc /\ parse' = parse /\ CountBuilt(deleted', know, refs')
  <2>1. CASE Exists(c)
    BY <2>1 DEF BuildCU, outside
  <2>2. CASE ~Exists(c)
    BY <2>2 DEF BuildCU, outside
  <2> QED
    BY <2>1, <2>2
<1>2. \A d \in CUs : d # c /\ OwnOf(refs, d) => OwnOf(refs', d)
  BY <1>1 DEF OwnOf, Without
<1>3. \A d \in CUs : ~BeingParsed(d)
  BY <1>1 DEF BeingParsed
<1>4. disk[c] = NoText \/ pc' = "parse"
  BY <1>1, DiskIsRead DEF FreshInv, File
<1>5. OwnInv'
  <2> SUFFICES ASSUME NEW d \in CUs, disk[d] # NoText, know[d] # 0, ~BeingParsed(d)'
               PROVE  Stripped(d)' \/ OwnOf(refs', d)
    BY <1>1 DEF OwnInv
  <2>1. d # c
    BY <1>1, <1>4 DEF BeingParsed
  <2> QED
    BY <1>1, <1>2, <1>3, <2>1 DEF KeptInv, OwnInv, Stripped
<1>6. ParseInv'
  BY <1>1 DEF KeptInv, ParseInv
<1>7. SavedInv'
  <2>1. snap' = snap \/ (disk[c] = NoText /\ snap' = Snapshot(deleted', know, refs'))
    BY <1>1, <1>4 DEF CountBuilt
  <2>2. CASE snap' = snap
    BY <1>1, <2>2 DEF KeptInv, SavedInv
  <2>3. CASE disk[c] = NoText /\ snap' = Snapshot(deleted', know, refs')
    <3>1. open
      BY <1>1 DEF FreshInv, UnopenedInv
    <3>2. know \in [File -> Time]
      BY DEF TypeOK, ItemsTypeOK
    <3>3. (\A op \in Ops : ~ParsesRequestFile(op)) =>
              \A d \in CUs : disk[d] # NoText /\ know[d] # 0 => OwnOf(refs', d)
      BY <1>2, <1>3, <2>3, NothingStripped DEF KeptInv, OwnInv, Stripped
    <3> QED
      BY <1>1, <2>3, <3>1, <3>2, <3>3, SavedKept
  <2> QED
    BY <2>1, <2>2, <2>3
<1> QED
  BY <1>5, <1>6, <1>7 DEF KeptInv, NothingCutShort

LEMMA ParseKept ==
    ASSUME TypeOK, ChangesInv, FreshInv, KeptInv, Parse
    PROVE  KeptInv'
<1>1. /\ UNCHANGED <<disk, restarts, snap, know, open, parse, req, strip>>
      /\ pc = "parse" /\ pc' = "parsed" /\ refs' = Renewed(Emits(parse.file, parse.time))
  BY DEF Parse, outside, request
<1>2. \A c \in CUs : OwnOf(refs, c) => OwnOf(refs', c)
  BY <1>1 DEF OwnOf, Renewed, SamePart
<1>3. OwnOf(refs', parse.file)
  <2>1. parse.file \in ReachNow(parse.file) /\ parse.file \in File
    BY <1>1 DEF ReachNow, Reached, TypeOK, RequestTypeOK
  <2>2. PICK p \in Emits(parse.file, parse.time) : p.file = parse.file
    BY <2>1, NewPartOf DEF FreshInv
  <2> QED
    BY <1>1, <2>2 DEF OwnOf, Renewed
<1>4. OwnInv'
  BY <1>1, <1>2 DEF KeptInv, OwnInv, BeingParsed, Stripped
<1>5. ParseInv' /\ SavedInv'
  BY <1>1, <1>3 DEF KeptInv, ParseInv, SavedInv
<1> QED
  BY <1>4, <1>5 DEF KeptInv, NothingCutShort

LEMMA AfterParseKept ==
    ASSUME TypeOK, ChangesInv, FreshInv, KeptInv, EndParse \/ ParseFails
    PROVE  KeptInv'
<1>1. PICK kn \in [File -> Time] :
        /\ pc \in {"parse", "parsed"} /\ AfterParse(kn)
        /\ \A c \in CUs : c # parse.file => kn[c] = know[c]
        /\ parse.file \in CUs => disk[parse.file] = NoText \/ OwnOf(refs, parse.file)
  <2>1. CASE EndParse
    <3>1. [know EXCEPT ![parse.file] = parse.time] \in [File -> Time]
      BY DEF TypeOK, ItemsTypeOK, RequestTypeOK
    <3> QED
      BY <2>1, <3>1 DEF EndParse, KeptInv, ParseInv, TypeOK, ItemsTypeOK, File
  <2>2. CASE ParseFails
    <3>1. pc = "parse" /\ parse.file \in File
      BY <2>2 DEF ParseFails, TypeOK, RequestTypeOK
    <3>2. disk[parse.file] = NoText
      BY <2>2, <3>1, DiskIsRead DEF ParseFails, FreshInv
    <3> QED
      BY <2>2, <3>1, <3>2 DEF ParseFails, TypeOK, ItemsTypeOK
  <2> QED
    BY <2>1, <2>2
<1>2. /\ UNCHANGED <<disk, restarts, refs, open, req, strip>>
      /\ know' = kn /\ pc' = parse.then /\ parse' = NoParse
      /\ snap' = snap \/ CountBuilt(deleted, kn, refs)
  BY <1>1 DEF AfterParse, outside
<1>3. pc' \in {"build", "buildAll", "answer"}
  BY <1>1, <1>2 DEF TypeOK, RequestTypeOK
<1>4. \A c \in CUs : disk[c] # NoText /\ kn[c] # 0 => Stripped(c) \/ OwnOf(refs, c)
  BY <1>1 DEF KeptInv, OwnInv, BeingParsed
<1>5. OwnInv'
  <2> SUFFICES ASSUME NEW c \in CUs, disk[c] # NoText, kn[c] # 0, ~OwnOf(refs, c)
               PROVE  Stripped(c)'
    BY <1>2 DEF OwnInv
  <2>1. Stripped(c) /\ c # parse.file
    BY <1>1, <1>4
  <2>2. parse.then # "answer"
    BY <1>1, <2>1 DEF KeptInv, ParseInv, Stripped
  <2> QED
    BY <1>2, <2>1, <2>2 DEF Stripped
<1>6. ParseInv'
  BY <1>2, <1>3 DEF KeptInv, ParseInv
<1>7. SavedInv'
  <2>1. snap' = snap \/ snap' = Snapshot(deleted, kn, refs)
    BY <1>2 DEF CountBuilt
  <2>2. open
    BY <1>1 DEF FreshInv, UnopenedInv
  <2>3. (\A op \in Ops : ~ParsesRequestFile(op)) =>
            \A d \in CUs : disk[d] # NoText /\ kn[d] # 0 => OwnOf(refs, d)
    BY <1>4, NothingStripped DEF Stripped
  <2> QED
    BY <1>2, <2>1, <2>2, <2>3, SavedKept
<1> QED
  BY <1>5, <1>6, <1>7 DEF KeptInv, NothingCutShort

LEMMA PhaseKept ==
    ASSUME TypeOK, ChangesInv, FreshInv, KeptInv,
           CollectAll \/ ProcessFile \/ SinglePass \/ EndRequest
    PROVE  KeptInv'
<1>1. /\ UNCHANGED <<disk, restarts, snap, know, refs, open>>
      /\ pc \in {"build", "buildAll", "opened", "answer"}
  BY DEF CollectAll, ProcessFile, SinglePass, EndRequest, outside, items
<1>2. CASE CollectAll
  <2>1. UNCHANGED <<strip, parse, req>> /\ pc = "build" /\ pc' = "buildAll"
    BY <1>2 DEF CollectAll
  <2> QED
    BY <1>1, <2>1, NothingGone DEF KeptInv, ParseInv
<1>3. CASE ProcessFile
  <2>1. UNCHANGED <<strip, parse, req>> /\ pc \in {"build", "buildAll"} /\ pc' \in {"opened", "answer"}
    BY <1>3 DEF ProcessFile, request
  <2>2. pc' = "answer" /\ strip => disk[req.file] = NoText
    <3> SUFFICES ASSUME pc' = "answer", strip PROVE disk[req.file] = NoText
      OBVIOUS
    <3>1. ParsesRequestFile(req.op) /\ req.file \in File /\ req.file # NoFile
      BY FilesAssumption DEF KeptInv, ParseInv, File
    <3>2. ~Openable(req.file)
      BY <1>3, <3>1 DEF ProcessFile
    <3> QED
      BY <3>1, <3>2, DiskIsRead DEF FreshInv
  <2> QED
    BY <1>1, <2>1, <2>2, NothingGone
<1>5. CASE SinglePass
  <2>1. /\ UNCHANGED <<strip, req>> /\ pc = "opened" /\ pc' = "parse"
        /\ parse'.file = req.file
    BY <1>5 DEF SinglePass
  <2>2. OwnInv'
    BY <1>1, <2>1 DEF KeptInv, OwnInv, BeingParsed, Stripped
  <2> QED
    BY <1>1, <2>1, <2>2 DEF KeptInv, ParseInv, SavedInv, NothingCutShort
<1>4. CASE EndRequest
  <2>1. parse' = parse /\ ~strip' /\ pc = "answer" /\ pc' = "idle"
    BY <1>4 DEF EndRequest
  <2>2. OwnInv'
    BY <1>1, <2>1 DEF KeptInv, OwnInv, BeingParsed, Stripped
  <2> QED
    BY <1>1, <2>1, <2>2 DEF KeptInv, ParseInv, SavedInv, NothingCutShort
<1> QED
  BY <1>2, <1>3, <1>4, <1>5

LEMMA StopKept ==
    ASSUME TypeOK, ChangesInv, FreshInv, KeptInv, Exit \/ Crash
    PROVE  KeptInv'
<1>1. /\ disk' = disk /\ restarts < MaxRestarts /\ restarts' = restarts + 1
      /\ know' = NoTimes /\ pc' = "idle" /\ ~strip' /\ parse' = NoParse
  BY DEF Exit, Crash, ServerStarts
<1>2. MaxRestarts # 0
  BY <1>1 DEF KeptInv, SavedInv
<1>3. OwnInv' /\ ParseInv'
  BY <1>1 DEF OwnInv, ParseInv, NoTimes, File
<1>4. SavedInv'
  <2> SUFFICES ASSUME \A op \in Ops : ~ParsesRequestFile(op),
                      NEW c \in CUs, disk[c] # NoText, snap'.know[c] # 0
               PROVE  OwnOf(snap'.refs, c)
    BY <1>1, <1>2 DEF SavedInv
  <2>1. CASE snap' = snap
    BY <2>1 DEF KeptInv, SavedInv
  <2>2. CASE snap' # snap
    <3> DEFINE kn == [f \in File |-> IF Held(f) THEN 0 ELSE know[f]]
    <3>1. pc = "idle" /\ snap' = Snapshot(deleted, kn, refs)
      BY <2>2 DEF Exit, Crash
    <3>2. snap'.refs = refs /\ know[c] # 0
      BY <3>1 DEF Snapshot, File
    <3>3. ~BeingParsed(c) /\ ~Stripped(c)
      BY <3>1, NothingStripped DEF BeingParsed, Stripped
    <3> QED
      BY <3>2, <3>3 DEF KeptInv, OwnInv
  <2> QED
    BY <2>1, <2>2
<1> QED
  BY <1>3, <1>4 DEF KeptInv, NothingCutShort

LEMMA DiskChangeKept ==
    ASSUME TypeOK, FreshInv, KeptInv, NEW f \in File, DiskEdit(f) \/ DiskRemove(f)
    PROVE  KeptInv'
<1>1. /\ UNCHANGED <<restarts, snap, know, refs, strip, open, parse, req, pc>>
      /\ pc = "idle"
  BY DEF DiskEdit, DiskRemove, FreshInv, DiskOnly, items, request
<1>2. \A c \in CUs : disk'[c] # NoText => disk[c] # NoText
  BY DEF DiskEdit, DiskRemove, TypeOK, WorldTypeOK, File
<1> QED
  BY <1>1, <1>2, NothingGone DEF KeptInv, ParseInv

LEMMA StepKept ==
    ASSUME TypeOK, ChangesInv, FreshInv, KeptInv, [Next]_vars
    PROVE  KeptInv'
<1>1. CASE \E f \in Asked, op \in Ops : BeginRequest(f, op)
  BY <1>1, BeginRequestKept
<1>2. CASE Server
  BY <1>2, ScanKept, RemoveChangedKept, CollectKept, BuildCUKept, ParseKept,
     AfterParseKept, PhaseKept DEF Server
<1>3. CASE Environment
  <2>1. ~Tick
    BY DEF FreshInv, DiskOnly, Tick
  <2> QED
    BY <1>3, <2>1, NothingElseHappens, DiskChangeKept, StopKept DEF Environment
<1>4. CASE UNCHANGED vars
  <2>1. UNCHANGED <<disk, restarts, snap, know, refs, open, pc, req, strip, parse>>
    BY <1>4 DEF vars, outside, items, request
  <2> QED
    BY <2>1 DEF KeptInv, OwnInv, ParseInv, SavedInv, BeingParsed, Stripped, OwnOf, NothingCutShort
<1> QED
  BY <1>1, <1>2, <1>3, <1>4 DEF Next

LEMMA KeptAlways ==
    DiskOnly /\ NothingCutShort /\ Spec => [](TypeOK /\ ChangesInv /\ FreshInv /\ KeptInv)
<1>1. TypeOK /\ ChangesInv /\ FreshInv /\ KeptInv /\ [Next]_vars => KeptInv'
  BY StepKept
<1> QED
  BY <1>1, InitKeptInv, FreshAlways, PTL DEF Spec

\* ADR-0035, "let missing references be known": at the answer to any request, a CU that
\* is judged current has all its references in the table, in its own file and in every
\* header it reaches, whatever was removed, stripped or declined before.
THEOREM MissingIsAlwaysKnown ==
    DiskOnly /\ NothingCutShort /\ Spec => []MissingIsKnown
<1>1. TypeOK /\ ChangesInv /\ FreshInv /\ KeptInv => MissingIsKnown
  <2> DEFINE times == [f \in File |-> ChangeTimeOf(f)]
  <2> SUFFICES ASSUME TypeOK, ChangesInv, FreshInv, KeptInv, pc = "answer",
                      NEW c \in CUs, Exists(c), ~KnowledgeIsOutOfDate(IncludeEdges, times, c),
                      NEW p \in Emits(c, 0)
               PROVE  \E r \in refs : SamePart(r, p)
    BY DEF MissingIsKnown
  <2>1. c \in File /\ disk[c] # NoText /\ know[c] # 0
    BY DiskIsRead DEF FreshInv, KnowledgeIsOutOfDate, File
  <2>2. PICK r \in refs : r.file = c
    BY <2>1 DEF KeptInv, OwnInv, BeingParsed, Stripped, OwnOf
  <2>3. Own(r) /\ r.by = c /\ r.at = know[r.file]
    BY <2>2 DEF Own, FreshInv, MemoryInv, Tables, Shaped, OwnTimes, KnowledgeTaken
  <2>4. /\ \A y \in DOMAIN r.saw : r.saw[y] = disk[y] /\ PartOf(refs, y, r)
        /\ r.saw = SawNow(c)
    BY <2>2, <2>3, EdgesOfReferences, CurrentHasAll DEF FreshInv, MemoryInv
  <2>5. p.file \in ReachNow(c) /\ p.by = c /\ p.saw = SawNow(p.file)
    <3>1. Openable(c)
      BY <2>1, DiskIsRead DEF FreshInv
    <3> QED
      BY <2>1, <3>1, NewParts, TimesAreNatural DEF FreshInv
  <2>6. DOMAIN r.saw = ReachNow(c)
    <3>1. SawNow(c) = [h \in ReachNow(c) |-> Reads(h)]
      BY <2>1, DiskIsReached DEF FreshInv
    <3> QED
      BY <2>4, <3>1
  <2>7. PICK q \in refs : q.file = p.file /\ q.by = c /\ Agrees(q, r)
    BY <2>3, <2>4, <2>5, <2>6 DEF PartOf
  <2>8. q \in Part /\ Shaped(q) /\ \A y \in DOMAIN q.saw : q.saw[y] = disk[y]
    BY <2>4, <2>7 DEF Agrees, FreshInv, MemoryInv, Tables, TypeOK, ContentTypeOK
  <2>9. q.saw = SawNow(q.file)
    BY <2>8, SawNowIfCurrent DEF FreshInv
  <2> QED
    BY <2>5, <2>7, <2>9 DEF SamePart
<1> QED
  BY <1>1, KeptAlways, PTL

\* ADR-0032, for a file that is written at any moment between two requests: from then
\* on the CU is out of date, or what it has in its own file was read from the texts
\* that a parse would read now.  (For what is written during a parse, see the README.)
THEOREM OwnTextIsAlwaysKnown ==
    DiskOnly /\ NothingCutShort /\ Spec => []OwnTextIsKnown
<1>1. TypeOK /\ ChangesInv /\ FreshInv /\ KeptInv => OwnTextIsKnown
  <2> DEFINE times == [f \in File |-> ChangeTimeOf(f)]
  <2> SUFFICES ASSUME TypeOK, ChangesInv, FreshInv, KeptInv, pc \in {"answer", "idle"},
                      NEW c \in CUs, ~KnowledgeIsOutOfDate(IncludeEdges, times, c)
               PROVE  \E r \in refs : /\ r.file = c /\ r.by = c
                                      /\ \A g \in DOMAIN r.saw : r.saw[g] = Reads(g)
    BY DEF OwnTextIsKnown
  <2>1. c \in File /\ know[c] # 0 /\ ModificationTime(c) # 0
    BY DEF KnowledgeIsOutOfDate, PrerequisiteChangedAfter, File
  <2>2. disk[c] # NoText
    BY <2>1, DiskIsRead DEF FreshInv, World
  <2>3. PICK r \in refs : r.file = c
    BY <2>1, <2>2 DEF KeptInv, OwnInv, ParseInv, BeingParsed, Stripped, OwnOf
  <2>4. Own(r) /\ r.by = c /\ r.at = know[r.file]
    BY <2>3 DEF Own, FreshInv, MemoryInv, Tables, Shaped, OwnTimes, KnowledgeTaken
  <2>5. \A g \in DOMAIN r.saw : r.saw[g] = disk[g]
    BY <2>3, <2>4, EdgesOfReferences, CurrentHasAll DEF FreshInv, MemoryInv
  <2>6. \A g \in DOMAIN r.saw : Reads(g) = disk[g]
    BY PartFiles, DiskIsRead DEF FreshInv, TypeOK, ContentTypeOK
  <2> QED
    BY <2>3, <2>4, <2>5, <2>6
<1> QED
  BY <1>1, KeptAlways, PTL
=============================================================================
