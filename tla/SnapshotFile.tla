---------------------------- MODULE SnapshotFile ----------------------------
(***************************************************************************)
(* The file table (filetable.c, hashtab.tc), the references by the numbers *)
(* it gives, and the file that cxfile.c writes of them and reads again.    *)
(*                                                                         *)
(* A file's number is its slot in an open hash table, so it is another one *)
(* in the next server.  In the file a number is written only when it is    *)
(* another than the last one of its tag.                                   *)
(*                                                                         *)
(* OverflowsWhenFull, NumberAsRead and the like are mistaken forms of the  *)
(* definitions after them.                                                 *)
(***************************************************************************)
EXTENDS Integers, Sequences, FiniteSets, SequencesExt

CONSTANTS
  Names,          \* of files
  NoFileName,     \* NO_FILE_NAME
  Empty,          \* a slot without a file
  Hash,           \* hashFun() of each name
  Size,           \* slots of the file table  (MAX_FILES)
  Shift,          \* HASH_SHIFT
  LinkNames,      \* names of symbols
  Included,       \* files that others may include
  Removable,      \* files that may disappear
  Lines, Usages,  \* of references
  MaxReferences,  \* bound on the references in the table
  MaxTime,        \* bound on the knowledge times
  MaxSaves        \* bound on the saves, after the last of which no more is done than load

ASSUME TableAssumption ==
  /\ Size \in Nat \ {0, 1} /\ Shift \in Nat
  \* 211 is a prime that the table's size is no multiple of
  /\ \A from, to \in 0..(Size - 1) : \E k \in 0..(Size - 1) : (from + k * Shift) % Size = to
  /\ Hash \in [Names \cup {NoFileName} -> Nat]
  /\ NoFileName \notin Names /\ Empty \notin Names \cup {NoFileName}
  /\ Included \cup Removable \subseteq Names
  /\ Lines \cup Usages \subseteq Nat /\ MaxTime \in Nat

VARIABLES
  status,         \* "down", "started", "scanning", "open", or "asserted"
  table,          \* fileTable.tab: the names in the slots
  count,          \* fileTable.numberOfElements
  deleted, know,  \* isDeleted and knowledgeTime of the file items
  refs,           \* the referenceable items' references: [item, file, line, usage]
  cxFile,         \* the records of the snapshot, NoSnapshot when there is none
  scan,           \* what scanCxFileUsing() has read: see Reset
  saved,          \* history: what the server had when it last saved, by name
  saves

tables == <<table, count, deleted, know, refs>>
vars == <<status, tables, cxFile, scan, saved, saves>>

Slots == 0..(Size - 1)

(***************************************************************************)
(* hashtab.tc                                                              *)
(***************************************************************************)
Probe(name, k) == ((Hash[name] % Size) + k * Shift) % Size

(* where the search for a name can end *)
Ends(tab, name) == {k \in Slots : tab[Probe(name, k)] \in {Empty, name}}

Position(tab, name) ==
  Probe(name, CHOOSE k \in Ends(tab, name) : \A j \in Ends(tab, name) : k <= j)

Exists(tab, name) == tab[Position(tab, name)] = name

OverflowsWhenFull(n) == n > Size
Overflows(n) == (n * 9) \div 8 >= Size

NoFile == Position([n \in Slots |-> Empty], NoFileName)

(***************************************************************************)
(* The server's tables                                                     *)
(***************************************************************************)
Item(type, name, visibility, include) ==
  [type |-> type, name |-> name, visibility |-> visibility, include |-> include]

TypeDefault == 1
TypeCppInclude == 2

Place(r) == <<r.item, r.file, r.line>>

(* addToReferenceList() *)
Added(rs, r) == {q \in rs : Place(q) # Place(r)} \cup {r}

(* removeReferenceableItemsForFile() *)
Without(n) == {r \in refs : r.file # n}

KeyList == {"f", "w", "t", "d", "u", "l", "r"}
NumberTags == KeyList

NoItem == Item(0, "", "", 0)

(* resetIncomingData(); fileNumberMapping is static, so it is all 0.  The   *)
(* key "d" is set to NO_FILE_NUMBER, which is taken for whether it is used *)
Reset ==
  [at |-> 1,
   used |-> IF NoFile = 0 THEN {} ELSE {"d"},
   last |-> [t \in NumberTags |-> 0],
   mapping |-> [n \in Slots |-> IF n = NoFile THEN NoFile ELSE 0],
   item |-> NoItem]

Works == status = "open" /\ saves < MaxSaves

Blank ==
  /\ table' = [n \in Slots |-> Empty] /\ count' = 0
  /\ deleted' = {} /\ know' = [n \in Slots |-> 0] /\ refs' = {}

Down == status' = "down" /\ Blank

(* initFileTable(), which is called before anything is read *)
Start ==
  /\ status = "down" /\ status' = "started"
  /\ table' = [n \in Slots |-> IF n = NoFile THEN NoFileName ELSE Empty] /\ count' = 1
  /\ UNCHANGED <<deleted, know, refs, cxFile, scan, saved, saves>>

(* the server is killed, or exits after a save *)
Stop ==
  /\ status \in {"started", "scanning", "open"}
  /\ Down /\ scan' = Reset
  /\ UNCHANGED <<cxFile, saved, saves>>

(* fileTableAdd() of a name that is not there, FATAL_ERROR() is an exit *)
AddNew(name) ==
  IF Overflows(count + 1) THEN Down
  ELSE /\ table' = [table EXCEPT ![Position(table, name)] = name]
       /\ count' = count + 1
       /\ UNCHANGED <<status, deleted, know, refs>>

(* addFileNameToFileTable() for a request, an include or a scan *)
AddFileName(name) ==
  /\ status = "started" \/ Works
  /\ IF Exists(table, name)
     THEN /\ deleted' = deleted \ {Position(table, name)}
          /\ UNCHANGED <<status, table, count, know, refs>>
     ELSE AddNew(name)
  /\ UNCHANGED <<cxFile, scan, saved, saves>>

MarkFileAsDeleted(n) == deleted' = deleted \cup {n} /\ refs' = Without(n)

RemoveFile(n) ==
  /\ Works /\ table[n] \in Removable
  /\ MarkFileAsDeleted(n)
  /\ UNCHANGED <<status, table, count, know, cxFile, scan, saved, saves>>

(* A file is parsed: its references go, it has a new knowledge time, and   *)
(* references come one at a time                                           *)
BeginParse(n) ==
  /\ Works /\ table[n] \in Names \ Included /\ n \notin deleted
  /\ \E time \in 1..MaxTime : know' = [know EXCEPT ![n] = time]
  /\ refs' = Without(n)
  /\ UNCHANGED <<status, table, count, deleted, cxFile, scan, saved, saves>>

AddReference(r) ==
  /\ Works
  /\ table[r.file] \in Names /\ r.file \notin deleted
  /\ refs' = Added(refs, r)
  /\ Cardinality(refs') <= MaxReferences
  /\ UNCHANGED <<status, table, count, deleted, know, cxFile, scan, saved, saves>>

(***************************************************************************)
(* Writing                                                                 *)
(***************************************************************************)
Record(tag, data) == [tag |-> tag, data |-> data]

Version == 1

(* The records written and the last number of each tag *)
Compact(w, tag, data) ==
  [out |-> Append(w.out, Record(tag, data)), last |-> [w.last EXCEPT ![tag] = data]]

OptionalCompact(w, tag, data) ==
  IF w.last[tag] = data THEN w ELSE Compact(w, tag, data)

Text(w, tag, text) == [w EXCEPT !.out = Append(@, Record(tag, text))]

FileHead ==
  [out |-> <<Record("v", Version), Record("@", KeyList)>>, last |-> [t \in NumberTags |-> -1]]

WriteFile(w, n) ==
  Text(OptionalCompact(OptionalCompact(w, "f", n), "w", know[n]), ":", table[n])

WriteReference(w, r) ==
  Compact(OptionalCompact(OptionalCompact(OptionalCompact(w, "u", r.usage), "f", r.file), "l", r.line),
          "r", 0)

WriteFiles(w, files) ==
  LET upTo[i \in 0..Len(files)] == IF i = 0 THEN w ELSE WriteFile(upTo[i - 1], files[i])
  IN  upTo[Len(files)]

WriteReferences(w, list) ==
  LET upTo[i \in 0..Len(list)] == IF i = 0 THEN w ELSE WriteReference(upTo[i - 1], list[i])
  IN  upTo[Len(list)]

WriteItem(w, item, list) ==
  WriteReferences(Text(OptionalCompact(OptionalCompact(w, "t", item.type), "d", item.include), "/", item.name),
                  list)

WriteItems(w, items, lists) ==
  LET upTo[i \in 0..Len(items)] == IF i = 0 THEN w ELSE WriteItem(upTo[i - 1], items[i], lists[items[i]])
  IN  upTo[Len(items)]

(* The file items in the order of their numbers; the referenceable items in *)
(* that of their hash values, which may be any; the references of an item  *)
(* as its list has them                                                    *)
FilesInOrder ==
  {s \in SetToSeqs({n \in Slots : table[n] # Empty /\ n \notin deleted}) : \A i, j \in DOMAIN s : i < j => s[i] < s[j]}

Before(q, r) == q.file < r.file \/ (q.file = r.file /\ q.line < r.line)
ListsOf(item) ==
  {s \in SetToSeqs({r \in refs : r.item = item}) : \A i, j \in DOMAIN s : i < j => Before(s[i], s[j])}

WrittenItems == {r.item : r \in {q \in refs : q.item.visibility # "local"}}

Written ==
  {WriteItems(WriteFiles(FileHead, files), items, lists).out :
     files \in FilesInOrder, items \in SetToSeqs(WrittenItems),
     lists \in {l \in [WrittenItems -> UNION {ListsOf(i) : i \in WrittenItems}] : \A i \in WrittenItems : l[i] \in ListsOf(i)}}

(***************************************************************************)
(* By name                                                                 *)
(***************************************************************************)
Numbers(name) == {n \in Slots : table[n] = name}

RefsByName ==
  {[r EXCEPT !.item.include = table[@], !.file = table[@]] : r \in refs}

KnowByName ==
  [f \in Names |-> IF Numbers(f) = {} THEN 0 ELSE know[CHOOSE n \in Numbers(f) : TRUE]]

GoneByName == {table[n] : n \in deleted}

Saved(whole) ==
  [refs |-> {r \in RefsByName : r.item.visibility = "global"},
   know |-> [f \in Names |-> IF f \in GoneByName THEN 0 ELSE KnowByName[f]],
   whole |-> whole]

(* saveReferencesToStore() *)
Save ==
  /\ Works /\ saves' = saves + 1
  /\ cxFile' \in Written
  /\ saved' = Saved(TRUE)
  /\ UNCHANGED <<status, tables, scan>>

(* The old file is removed first, and the new one is written in place *)
CrashInSave ==
  /\ Works /\ saves' = saves + 1
  /\ \E records \in Written : \E n \in 0..(Len(records) - 1) : cxFile' = SubSeq(records, 1, n)
  /\ saved' = Saved(FALSE)
  /\ Down
  /\ UNCHANGED scan

(***************************************************************************)
(* Reading: scanCxFileUsing() with snapshotLoadScanDispatchTable, one      *)
(* record at a time                                                        *)
(***************************************************************************)
NoSnapshot == <<Record("none", 0)>>

LoadSnapshot ==
  /\ status = "started"
  /\ status' = IF cxFile = NoSnapshot THEN "open" ELSE "scanning"
  /\ scan' = Reset
  /\ UNCHANGED <<tables, cxFile, saved, saves>>

Scanned == cxFile[scan.at]
Scans(tags) == status = "scanning" /\ scan.at <= Len(cxFile) /\ Scanned.tag \in tags
Onwards == [scan EXCEPT !.at = @ + 1]

ScanVersion ==
  /\ Scans({"v"})
  /\ status' = IF Scanned.data = Version THEN "scanning" ELSE "open"
  /\ scan' = Onwards
  /\ UNCHANGED <<tables, cxFile, saved, saves>>

ScanKeys ==
  /\ Scans({"@"})
  /\ scan' = [Onwards EXCEPT !.used = @ \cup Scanned.data]
  /\ UNCHANGED <<status, tables, cxFile, saved, saves>>

ScanNumber ==
  /\ Scans(NumberTags \ {"r"})
  /\ scan' = IF Scanned.tag \in scan.used THEN [Onwards EXCEPT !.last[Scanned.tag] = Scanned.data] ELSE Onwards
  /\ UNCHANGED <<status, tables, cxFile, saved, saves>>

NumberAsRead(name) == scan.last["f"]
NumberOf(name) == Position(table, name)

(* scanFunction_ReadFileName(): what this server knows already is newer *)
ScanFileName(name) ==
  /\ Scans({":"}) /\ Scanned.data = name
  /\ LET n == NumberOf(name)
         news == [know EXCEPT ![n] = IF @ = 0 THEN scan.last["w"] ELSE @]
     IN  IF Exists(table, name)
         THEN know' = news /\ UNCHANGED <<status, table, count, deleted, refs>>
         ELSE IF Overflows(count + 1) THEN Down
         ELSE /\ table' = [table EXCEPT ![Position(table, name)] = name] /\ count' = count + 1
              /\ know' = news
              /\ UNCHANGED <<status, deleted, refs>>
  /\ scan' = [Onwards EXCEPT !.mapping[scan.last["f"]] = NumberOf(name)]
  /\ UNCHANGED <<cxFile, saved, saves>>

(* scanFunction_SymbolNameForSnapshotLoad(): an include file that was not  *)
(* in the file is file 0, which need not exist                             *)
ScanSymbolName ==
  /\ Scans({"/"})
  /\ LET include == scan.mapping[scan.last["d"]]
     IN  IF table[include] = Empty
         THEN status' = "asserted" /\ UNCHANGED scan
         ELSE /\ scan' = [Onwards EXCEPT !.item = Item(scan.last["t"], Scanned.data, "global", include)]
              /\ UNCHANGED status
  /\ UNCHANGED <<tables, cxFile, saved, saves>>

ScanReference ==
  /\ Scans({"r"})
  /\ refs' = Added(refs, [item |-> scan.item, file |-> scan.mapping[scan.last["f"]],
                          line |-> scan.last["l"], usage |-> scan.last["u"]])
  /\ scan' = Onwards
  /\ UNCHANGED <<status, table, count, deleted, know, cxFile, saved, saves>>

EndScan ==
  /\ status = "scanning" /\ scan.at > Len(cxFile)
  /\ status' = "open" /\ scan' = Reset
  /\ UNCHANGED <<tables, cxFile, saved, saves>>

-----------------------------------------------------------------------------
(* There is no snapshot, or one of another format *)
Init ==
  /\ status = "down" /\ saves = 0
  /\ table = [n \in Slots |-> Empty] /\ count = 0
  /\ deleted = {} /\ know = [n \in Slots |-> 0] /\ refs = {}
  /\ cxFile \in {NoSnapshot, <<Record("v", Version - 1), Record("f", 1), Record(":", NoFileName)>>}
  /\ scan = Reset
  /\ saved = [refs |-> {}, know |-> [f \in Names |-> 0], whole |-> TRUE]

Items ==
  [type : {TypeDefault}, name : LinkNames, visibility : {"global", "local"}, include : {NoFile}]
  \cup [type : {TypeCppInclude}, name : {"#include"}, visibility : {"global"},
        include : {n \in Slots : table[n] \in Included}]

Next ==
  \/ Start \/ Stop \/ Save \/ CrashInSave
  \/ \E name \in Names : AddFileName(name)
  \/ \E n \in Slots : RemoveFile(n) \/ BeginParse(n)
  \/ \E r \in [item : Items, file : Slots, line : Lines, usage : Usages] : AddReference(r)
  \/ \E name \in Names \cup {NoFileName} : ScanFileName(name)
  \/ LoadSnapshot \/ ScanVersion \/ ScanKeys \/ ScanNumber
  \/ ScanSymbolName \/ ScanReference \/ EndScan

Spec == Init /\ [][Next]_vars

(***************************************************************************)
(* Properties                                                              *)
(***************************************************************************)
Visible == status \in {"open", "asserted"}

Promise ==
  INSTANCE KnownReferences WITH
    Files <- Names,
    Times <- 0..MaxTime,
    References <-
      [item : [type : {TypeDefault}, name : LinkNames, visibility : {"global", "local"}, include : {NoFileName}]
              \cup [type : {TypeCppInclude}, name : {"#include"}, visibility : {"global"}, include : Included],
       file : Names, line : Lines, usage : Usages],
    state <- IF status = "scanning" THEN "started" ELSE status,
    refs <- IF Visible THEN RefsByName ELSE {},
    know <- IF Visible THEN KnowByName ELSE [f \in Names |-> 0],
    gone <- GoneByName,
    stored <- saved

(* The file and the next server's table give every reference and every     *)
(* knowledge time back to the file it was of, whatever the number of that  *)
(* file is now and in whatever order it was all written, and nothing else; *)
(* what is cut short gives a part of that.                                 *)
KeepsReferences == Promise!Spec

(* hashtab.tc: a search for a name ends wherever it begins, also one for a *)
(* name that is not there, and a file is found at its number as long as    *)
(* the server runs, so a name has one number, whichever names share its    *)
(* probes and however full the table is.                                   *)
LookupsAreRight ==
  status \in {"started", "scanning", "open"} =>
    /\ \A n \in Slots : \E k \in Slots : table[(n + k * Shift) % Size] = Empty
    /\ \A n \in Slots : table[n] # Empty => Position(table, table[n]) = n

=============================================================================
