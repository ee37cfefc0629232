------------------------ MODULE SnapshotFile_proofs ------------------------
(***************************************************************************)
(* Searches in the file table end and find what they look for, for every   *)
(* size of the table, every shift that reaches all of it, and all names    *)
(* and hash values.  Then, for any number of servers, files, references    *)
(* and saves, that the file they leave each other keeps what it should.    *)
(***************************************************************************)
EXTENDS SnapshotFile, FiniteSetTheorems, WellFoundedInduction, TLAPS

Taken(tab) == {n \in Slots : tab[n] # Empty}

Table == [Slots -> Names \cup {NoFileName, Empty}]

\* A search for name ends at its k-th probe
EndsAt(tab, name, k) ==
  /\ tab[Probe(name, k)] \in {Empty, name}
  /\ \A j \in Slots : j < k => tab[Probe(name, j)] \notin {Empty, name}

\* What a name that was added was probed past is still taken by others
Reached(tab) ==
  \A n \in Slots : tab[n] # Empty =>
    \E k \in Slots : Probe(tab[n], k) = n /\ EndsAt(tab, tab[n], k)

\* The check for overflow leaves a free slot
RightTable(tab, n) ==
  /\ tab \in Table /\ Reached(tab)
  /\ n \in Nat /\ Cardinality(Taken(tab)) <= n /\ n < Size

IInv ==
  /\ status \in {"down", "started", "scanning", "open", "asserted"}
  /\ status \in {"started", "scanning", "open"} => RightTable(table, count)

-----------------------------------------------------------------------------
(* Searching *)

LEMMA SlotsFinite == IsFiniteSet(Slots) /\ Cardinality(Slots) = Size
  BY TableAssumption, FS_Interval DEF Slots

LEMMA LeastExists ==
  ASSUME NEW S \in SUBSET Nat, S # {}
  PROVE  \E k \in S : \A j \in S : k <= j
<1>1. PICK k \in S : \A j \in S : <<j, k>> \notin OpToRel(<, Nat)
  BY NatLessThanWellFounded, WFMin
<1>2. \A j \in S : ~(j < k)
  BY <1>1 DEF OpToRel
<1> QED  BY <1>2

LEMMA ProbeInSlots ==
  ASSUME NEW name \in Names \cup {NoFileName}, NEW k \in Slots
  PROVE  Probe(name, k) \in Slots
<1>1. (Hash[name] % Size) + k * Shift \in Nat
  <2>1. Hash[name] % Size \in Nat /\ k \in Nat /\ Shift \in Nat
    BY TableAssumption DEF Slots
  <2> QED  BY <2>1
<1>2. ASSUME NEW a \in Nat PROVE a % Size \in 0..(Size - 1)
  BY TableAssumption
<1> QED  BY <1>1, <1>2 DEF Probe, Slots

(* The loops of IsMember, Add and fileTableLookup stop where EndsAt says *)
LEMMA PositionIsEnd ==
  ASSUME NEW tab, NEW name, NEW k \in Slots, EndsAt(tab, name, k)
  PROVE  Position(tab, name) = Probe(name, k)
<1> DEFINE First(i) == i \in Ends(tab, name) /\ \A j \in Ends(tab, name) : i <= j
<1>1. k \in Ends(tab, name) /\ \A j \in Ends(tab, name) : k <= j
  BY TableAssumption DEF EndsAt, Ends, Slots
<1>2. \A i \in Ends(tab, name) : (\A j \in Ends(tab, name) : i <= j) => i = k
  BY <1>1 DEF Ends, Slots
<1>3. (CHOOSE i \in Ends(tab, name) : \A j \in Ends(tab, name) : i <= j) = k
  BY <1>1, <1>2
<1> QED  BY <1>3 DEF Position

LEMMA FreeSlot ==
  ASSUME NEW tab, NEW c \in Nat, Cardinality(Taken(tab)) <= c, c < Size
  PROVE  \E n \in Slots : tab[n] = Empty
<1>1. Cardinality(Taken(tab)) \in Nat
  BY SlotsFinite, FS_Subset, FS_CardinalityType DEF Taken
<1>2. Taken(tab) # Slots
  BY <1>1, SlotsFinite, TableAssumption
<1> QED  BY <1>2 DEF Taken

LEMMA SearchEnds ==
  ASSUME NEW tab, NEW c, RightTable(tab, c), NEW name \in Names \cup {NoFileName}
  PROVE  \E k \in Slots : EndsAt(tab, name, k)
<1>1. PICK m \in Slots : tab[m] = Empty
  BY FreeSlot DEF RightTable
<1>2. Hash[name] \in Nat /\ Size \in Nat \ {0} /\ Shift \in Nat
  BY TableAssumption
<1>3. PICK k \in Slots : ((Hash[name] % Size) + k * Shift) % Size = m
  <2>1. Hash[name] % Size \in 0..(Size - 1)
    BY <1>2
  <2> QED  BY <2>1, TableAssumption DEF Slots
<1>4. Probe(name, k) = m
  BY <1>3 DEF Probe
<1>5. Ends(tab, name) \in SUBSET Nat /\ k \in Ends(tab, name)
  BY <1>1, <1>4 DEF Ends, Slots
<1>6. PICK i \in Ends(tab, name) : \A j \in Ends(tab, name) : i <= j
  BY <1>5, LeastExists
<1> QED  BY <1>6 DEF Ends, EndsAt, Slots

LEMMA FoundWhereItIs ==
  ASSUME NEW tab, NEW c, RightTable(tab, c), NEW n \in Slots, tab[n] # Empty
  PROVE  Position(tab, tab[n]) = n
  BY PositionIsEnd DEF RightTable, Reached

(* A name that is not there has its number at the free slot it ends at *)
LEMMA NewNameFits ==
  ASSUME NEW tab, NEW c, RightTable(tab, c), NEW name \in Names \cup {NoFileName},
         tab[Position(tab, name)] # name, ~Overflows(c + 1)
  PROVE  RightTable([tab EXCEPT ![Position(tab, name)] = name], c + 1)
<1> DEFINE p == Position(tab, name)
           new == [tab EXCEPT ![p] = name]
<1>1. PICK k \in Slots : EndsAt(tab, name, k)
  BY SearchEnds
<1>2. p = Probe(name, k) /\ p \in Slots /\ tab[p] = Empty
  BY <1>1, PositionIsEnd, ProbeInSlots DEF EndsAt
<1>3. name # Empty /\ Empty \notin Names \cup {NoFileName}
  BY TableAssumption
<1>4. tab \in Table /\ c \in Nat
  BY DEF RightTable
<1>5. new \in Table /\ \A n \in Slots : new[n] = IF n = p THEN name ELSE tab[n]
  BY <1>2, <1>4 DEF Table
<1>6. Reached(new)
  <2> SUFFICES ASSUME NEW n \in Slots, new[n] # Empty
               PROVE  \E i \in Slots : Probe(new[n], i) = n /\ EndsAt(new, new[n], i)
    BY DEF Reached
  <2>1. CASE n = p
    <3>1. \A j \in Slots : j < k => Probe(name, j) \in Slots /\ Probe(name, j) # p
      BY <1>1, <1>2, ProbeInSlots DEF EndsAt
    <3> QED  BY <2>1, <3>1, <1>1, <1>2, <1>5 DEF EndsAt
  <2>2. CASE n # p
    <3>1. new[n] = tab[n] /\ tab[n] # Empty /\ tab[n] \in Names \cup {NoFileName}
      BY <2>2, <1>4, <1>5 DEF Table
    <3>2. PICK i \in Slots : Probe(tab[n], i) = n /\ EndsAt(tab, tab[n], i)
      BY <3>1 DEF RightTable, Reached
    <3>3. tab[n] # name
      BY <3>1, FoundWhereItIs
    <3>4. \A j \in Slots : j < i => new[Probe(tab[n], j)] \notin {Empty, tab[n]}
      BY <3>1, <3>2, <3>3, <1>3, <1>5, ProbeInSlots DEF EndsAt
    <3> QED  BY <2>2, <3>1, <3>2, <3>4, <1>5 DEF EndsAt
  <2> QED  BY <2>1, <2>2
<1>7. Cardinality(Taken(new)) <= c + 1
  <2>1. Taken(new) = Taken(tab) \cup {p}
    BY <1>2, <1>3, <1>5 DEF Taken
  <2>2. IsFiniteSet(Taken(tab))
    BY SlotsFinite, FS_Subset DEF Taken
  <2>3. Cardinality(Taken(tab)) \in Nat /\ Cardinality(Taken(tab)) <= c
    BY <2>2, FS_CardinalityType DEF RightTable
  <2>4. Cardinality(Taken(tab) \cup {p}) \in {Cardinality(Taken(tab)), Cardinality(Taken(tab)) + 1}
    BY <2>2, FS_AddElement
  <2> HIDE DEF p, new
  <2> QED  BY <2>1, <2>3, <2>4, <1>4
<1>8. c + 1 < Size
  BY <1>4, TableAssumption DEF Overflows
<1> QED  BY <1>4, <1>5, <1>6, <1>7, <1>8 DEF RightTable

(* A table with NO_FILE alone *)
LEMMA NoFileFits ==
  RightTable([n \in Slots |-> IF n = NoFile THEN NoFileName ELSE Empty], 1)
<1> DEFINE none == [n \in Slots |-> Empty]
           tab == [n \in Slots |-> IF n = NoFile THEN NoFileName ELSE Empty]
<1>1. 0 \in Slots /\ NoFileName # Empty
  BY TableAssumption DEF Slots
<1>2. Probe(NoFileName, 0) \in Slots
  BY <1>1, ProbeInSlots
<1>3. EndsAt(none, NoFileName, 0)
  BY <1>2 DEF EndsAt, Slots
<1>4. NoFile = Probe(NoFileName, 0)
  BY <1>1, <1>3, PositionIsEnd DEF NoFile
<1>5. tab \in Table
  BY DEF Table
<1>6. Reached(tab)
  <2> SUFFICES ASSUME NEW n \in Slots, tab[n] # Empty
               PROVE  Probe(tab[n], 0) = n /\ EndsAt(tab, tab[n], 0)
    BY <1>1 DEF Reached
  <2>1. n = Probe(NoFileName, 0) /\ tab[n] = NoFileName
    BY <1>4
  <2> QED  BY <2>1 DEF EndsAt, Slots
<1>7. Taken(tab) = {NoFile}
  BY <1>1, <1>2, <1>4 DEF Taken
<1>8. Cardinality(Taken(tab)) <= 1
  <2>1. Cardinality({NoFile}) = 1
    BY FS_Singleton
  <2> QED  BY <1>7, <2>1
<1> QED  BY <1>5, <1>6, <1>8, TableAssumption DEF RightTable

-----------------------------------------------------------------------------
(* Steps *)

LEMMA TableKept ==
  ASSUME IInv, UNCHANGED <<table, count>>,
         \/ UNCHANGED status
         \/ status' = "asserted"
         \/ status \in {"started", "scanning", "open"} /\ status' \in {"scanning", "open"}
  PROVE  IInv'
  BY DEF IInv

LEMMA WentDown ==
  ASSUME Down
  PROVE  IInv'
  BY DEF Down, IInv

LEMMA InitHolds == Init => IInv
  BY DEF Init, IInv

LEMMA AddNewStep ==
  ASSUME IInv, status \in {"started", "scanning", "open"},
         NEW name \in Names \cup {NoFileName}, ~Exists(table, name),
         ~Overflows(count + 1), UNCHANGED status,
         table' = [table EXCEPT ![Position(table, name)] = name], count' = count + 1
  PROVE  IInv'
  BY NewNameFits DEF IInv, Exists

LEMMA NextHolds ==
  ASSUME IInv, [Next]_vars
  PROVE  IInv'
<1> USE DEF tables, Works
<1>1. CASE Start
  <2>1. RightTable(table', count')
    BY <1>1, NoFileFits DEF Start
  <2> QED  BY <1>1, <2>1 DEF Start, IInv
<1>2. CASE Stop
  BY <1>2, WentDown DEF Stop
<1>3. CASE Save
  BY <1>3, TableKept DEF Save
<1>4. CASE CrashInSave
  BY <1>4, WentDown DEF CrashInSave
<1>5. ASSUME NEW name \in Names, AddFileName(name) PROVE IInv'
  <2>1. CASE Exists(table, name)
    BY <1>5, <2>1, TableKept DEF AddFileName
  <2>2. CASE ~Exists(table, name) /\ Overflows(count + 1)
    BY <1>5, <2>2, WentDown DEF AddFileName, AddNew
  <2>3. CASE ~Exists(table, name) /\ ~Overflows(count + 1)
    BY <1>5, <2>3, AddNewStep DEF AddFileName, AddNew
  <2> QED  BY <2>1, <2>2, <2>3
<1>6. ASSUME NEW n \in Slots, RemoveFile(n) PROVE IInv'
  BY <1>6, TableKept DEF RemoveFile
<1>7. ASSUME NEW n \in Slots, BeginParse(n) PROVE IInv'
  BY <1>7, TableKept DEF BeginParse
<1>8. ASSUME NEW r, AddReference(r) PROVE IInv'
  BY <1>8, TableKept DEF AddReference
<1>9. ASSUME NEW name \in Names \cup {NoFileName}, ScanFileName(name) PROVE IInv'
  <2>0. status = "scanning"
    BY <1>9 DEF ScanFileName, Scans
  <2>1. CASE Exists(table, name)
    BY <1>9, <2>1, TableKept DEF ScanFileName
  <2>2. CASE ~Exists(table, name) /\ Overflows(count + 1)
    BY <1>9, <2>2, WentDown DEF ScanFileName
  <2>3. CASE ~Exists(table, name) /\ ~Overflows(count + 1)
    BY <1>9, <2>0, <2>3, AddNewStep DEF ScanFileName
  <2> QED  BY <2>1, <2>2, <2>3
<1>10. CASE LoadSnapshot
  BY <1>10, TableKept DEF LoadSnapshot
<1>11. CASE ScanVersion
  BY <1>11, TableKept DEF ScanVersion, Scans
<1>12. CASE ScanKeys
  BY <1>12, TableKept DEF ScanKeys
<1>13. CASE ScanNumber
  BY <1>13, TableKept DEF ScanNumber
<1>14. CASE ScanSymbolName
  BY <1>14, TableKept DEF ScanSymbolName
<1>15. CASE ScanReference
  BY <1>15, TableKept DEF ScanReference
<1>16. CASE EndScan
  BY <1>16, TableKept DEF EndScan
<1>17. CASE UNCHANGED vars
  BY <1>17, TableKept DEF vars
<1> QED
  BY <1>1, <1>2, <1>3, <1>4, <1>5, <1>6, <1>7, <1>8, <1>9, <1>10, <1>11, <1>12, <1>13,
     <1>14, <1>15, <1>16, <1>17 DEF Next

(* In a table of any size, however its names hash and in whatever order    *)
(* they came: as fileTableAdd() stops the server when 8/9 of the slots are *)
(* taken and nothing is ever taken out, every search ends, and a file has  *)
(* one number that stays.                                                  *)
THEOREM LookupsStayRight == Spec => []LookupsAreRight
<1>1. ASSUME IInv PROVE LookupsAreRight
  <2> SUFFICES ASSUME status \in {"started", "scanning", "open"}
               PROVE  /\ \A n \in Slots : \E k \in Slots : table[(n + k * Shift) % Size] = Empty
                      /\ \A n \in Slots : table[n] # Empty => Position(table, table[n]) = n
    BY DEF LookupsAreRight
  <2>1. RightTable(table, count)
    BY <1>1 DEF IInv
  <2>2. PICK m \in Slots : table[m] = Empty
    BY <2>1, FreeSlot DEF RightTable
  <2> QED  BY <2>1, <2>2, FoundWhereItIs, TableAssumption DEF Slots
<1> QED  BY <1>1, InitHolds, NextHolds, PTL DEF Spec

-----------------------------------------------------------------------------
(* What the tables of a server hold, and what it is by name                 *)

Named == Names \cup {NoFileName}
Times == 0..MaxTime
Zeros == [n \in Slots |-> 0]

ItemsOf(tab) ==
  [type : {TypeDefault}, name : LinkNames, visibility : {"global", "local"}, include : {NoFile}]
  \cup [type : {TypeCppInclude}, name : {"#include"}, visibility : {"global"},
        include : {n \in Slots : tab[n] \in Included}]
RefsOf(tab) == [item : ItemsOf(tab), file : {n \in Slots : tab[n] \in Names}, line : Lines, usage : Usages]

ItemNamed(tab, item) == [item EXCEPT !.include = tab[@]]
ByName(tab, r) == [r EXCEPT !.item.include = tab[@], !.file = tab[@]]
RefsIn(tab, rs) == {ByName(tab, r) : r \in rs}
KnowIn(tab, kn) ==
  [f \in Names |-> IF {n \in Slots : tab[n] = f} = {} THEN 0
                   ELSE kn[CHOOSE n \in {i \in Slots : tab[i] = f} : TRUE]]
GoneIn(tab, del) == {tab[n] : n \in del}

\* A name has one number, NO_FILE is where it always is, and references are of files that are there
Sound(tab, kn, del, rs) ==
  /\ tab \in Table /\ tab[NoFile] = NoFileName
  /\ \A m, n \in Slots : tab[m] = tab[n] /\ tab[m] # Empty => m = n
  /\ kn \in [Slots -> Times] /\ \A n \in Slots : tab[n] \notin Names => kn[n] = 0
  /\ del \subseteq {n \in Slots : tab[n] \in Removable}
  /\ rs \subseteq RefsOf(tab) /\ IsFiniteSet(rs) /\ \A r \in rs : r.file \notin del
  /\ \A q, r \in rs : Place(q) = Place(r) => q = r

Server ==
  /\ status \in {"down", "started", "scanning", "open"}
  /\ status # "down" => Sound(table, know, deleted, refs)
  /\ status \in {"down", "started"} => refs = {} /\ know = Zeros /\ deleted = {}
  /\ status = "scanning" => deleted = {}

LEMMA ConstantsAre ==
    /\ NoFileName \notin Names /\ Empty \notin Named /\ Included \subseteq Names /\ Removable \subseteq Names
    /\ Lines \subseteq Nat /\ Usages \subseteq Nat /\ MaxTime \in Nat /\ Size \in Nat \ {0, 1}
BY TableAssumption DEF Named

LEMMA NoFileIs == NoFile \in Slots
<1> DEFINE none == [n \in Slots |-> Empty]
<1>1. 0 \in Slots
  BY TableAssumption DEF Slots
<1>2. Probe(NoFileName, 0) \in Slots
  BY <1>1, ProbeInSlots
<1>3. EndsAt(none, NoFileName, 0)
  BY <1>2 DEF EndsAt, Slots
<1> QED
  BY <1>1, <1>2, <1>3, PositionIsEnd DEF NoFile

LEMMA ItemNamedIs ==
    ASSUME NEW tab, NEW item \in ItemsOf(tab)
    PROVE  /\ ItemNamed(tab, item) = [type |-> item.type, name |-> item.name,
                                      visibility |-> item.visibility, include |-> tab[item.include]]
           /\ item = [type |-> item.type, name |-> item.name, visibility |-> item.visibility, include |-> item.include]
           /\ item.include \in Slots
<1>1. item \in [type : {TypeDefault, TypeCppInclude}, name : LinkNames \cup {"#include"},
                visibility : {"global", "local"}, include : Slots]
  BY NoFileIs DEF ItemsOf
<1> QED
  BY <1>1 DEF ItemNamed

LEMMA ByNameIs ==
    ASSUME NEW tab, NEW r \in RefsOf(tab)
    PROVE  /\ ByName(tab, r) = [item |-> ItemNamed(tab, r.item), file |-> tab[r.file], line |-> r.line, usage |-> r.usage]
           /\ r = [item |-> r.item, file |-> r.file, line |-> r.line, usage |-> r.usage]
           /\ r.item \in ItemsOf(tab) /\ r.item.include \in Slots
           /\ r.file \in Slots /\ tab[r.file] \in Names /\ r.line \in Lines /\ r.usage \in Usages
<1>1. /\ r.item \in ItemsOf(tab) /\ r.file \in Slots /\ tab[r.file] \in Names /\ r.line \in Lines /\ r.usage \in Usages
      /\ r = [item |-> r.item, file |-> r.file, line |-> r.line, usage |-> r.usage]
  BY DEF RefsOf
<1>2. r.item.include \in Slots
  BY <1>1, ItemNamedIs
<1> DEFINE s == [r EXCEPT !.item = ItemNamed(tab, r.item)]
<1>3. s = [item |-> ItemNamed(tab, r.item), file |-> r.file, line |-> r.line, usage |-> r.usage]
  BY <1>1
<1>4. ByName(tab, r) = [s EXCEPT !.file = tab[@]]
  BY <1>1 DEF ByName, ItemNamed
<1> HIDE DEF s
<1>5. ByName(tab, r) = [item |-> ItemNamed(tab, r.item), file |-> tab[r.file], line |-> r.line, usage |-> r.usage]
  BY <1>3, <1>4
<1> QED
  BY <1>1, <1>2, <1>5

LEMMA PlaceIs ==
    ASSUME NEW tab, NEW r \in RefsOf(tab)
    PROVE  Place(ByName(tab, r)) = <<ItemNamed(tab, r.item), tab[r.file], r.line>>
<1> DEFINE s == ByName(tab, r)
<1>1. s = [item |-> ItemNamed(tab, r.item), file |-> tab[r.file], line |-> r.line, usage |-> r.usage]
  BY ByNameIs
<1>2. s.item = ItemNamed(tab, r.item) /\ s.file = tab[r.file] /\ s.line = r.line
  BY <1>1
<1> QED
  BY <1>2 DEF Place

\* Two references by number are at one place if they are by name
LEMMA SamePlaces ==
    ASSUME NEW tab, NEW kn, NEW del, NEW rs, Sound(tab, kn, del, rs), NEW q \in RefsOf(tab), NEW r \in RefsOf(tab)
    PROVE  (Place(q) = Place(r)) <=> (Place(ByName(tab, q)) = Place(ByName(tab, r)))
<1>1. \A m, n \in Slots : tab[m] = tab[n] /\ tab[m] # Empty => m = n
  BY DEF Sound
<1>2. \A n \in Slots : tab[n] \in Names => tab[n] # Empty
  BY ConstantsAre DEF Named
<1>3. \A x \in RefsOf(tab) : tab[x.item.include] # Empty
  <2> TAKE x \in RefsOf(tab)
  <2>1. x.item \in ItemsOf(tab)
    BY ByNameIs
  <2>2. tab[x.item.include] = NoFileName \/ tab[x.item.include] \in Included
    BY <2>1 DEF ItemsOf, Sound
  <2> QED
    BY <2>2, ConstantsAre DEF Named
<1>4. Place(ByName(tab, q)) = <<ItemNamed(tab, q.item), tab[q.file], q.line>>
  BY PlaceIs
<1>5. Place(ByName(tab, r)) = <<ItemNamed(tab, r.item), tab[r.file], r.line>>
  BY PlaceIs
<1>6. /\ q.item.include \in Slots /\ r.item.include \in Slots /\ q.file \in Slots /\ r.file \in Slots
      /\ tab[q.file] \in Names /\ tab[r.file] \in Names
  BY ByNameIs
<1>7. (tab[q.file] = tab[r.file]) <=> (q.file = r.file)
  BY <1>1, <1>2, <1>6
<1>8. (tab[q.item.include] = tab[r.item.include]) <=> (q.item.include = r.item.include)
  BY <1>1, <1>3, <1>6
<1>9. (ItemNamed(tab, q.item) = ItemNamed(tab, r.item)) <=> (q.item = r.item)
  <2> DEFINE a == q.item
             b == r.item
  <2>1. a \in ItemsOf(tab) /\ b \in ItemsOf(tab)
    BY ByNameIs
  <2>2. ASSUME ItemNamed(tab, a) = ItemNamed(tab, b) PROVE a = b
    <3> HIDE DEF a, b
    <3>1. /\ ItemNamed(tab, a).type = a.type /\ ItemNamed(tab, a).name = a.name
          /\ ItemNamed(tab, a).visibility = a.visibility /\ ItemNamed(tab, a).include = tab[a.include]
      BY <2>1, ItemNamedIs
    <3>2. /\ ItemNamed(tab, b).type = b.type /\ ItemNamed(tab, b).name = b.name
          /\ ItemNamed(tab, b).visibility = b.visibility /\ ItemNamed(tab, b).include = tab[b.include]
      BY <2>1, ItemNamedIs
    <3>3. a.type = b.type /\ a.name = b.name /\ a.visibility = b.visibility /\ tab[a.include] = tab[b.include]
      BY <2>2, <3>1, <3>2
    <3>4. a.include = b.include
      BY <1>8, <3>3 DEF a, b
    <3>5. /\ a = [type |-> a.type, name |-> a.name, visibility |-> a.visibility, include |-> a.include]
          /\ b = [type |-> b.type, name |-> b.name, visibility |-> b.visibility, include |-> b.include]
      BY <2>1, ItemNamedIs
    <3> QED
      BY <3>3, <3>4, <3>5
  <2> QED
    BY <2>2
<1> QED
  BY <1>4, <1>5, <1>7, <1>9 DEF Place

LEMMA KnowIs ==
    ASSUME NEW tab, NEW kn, NEW del, NEW rs, Sound(tab, kn, del, rs)
    PROVE  /\ \A n \in Slots : tab[n] \in Names => KnowIn(tab, kn)[tab[n]] = kn[n]
           /\ \A f \in Names : (\A n \in Slots : tab[n] # f) => KnowIn(tab, kn)[f] = 0
           /\ KnowIn(tab, kn) \in [Names -> Times]
<1>1. \A m, n \in Slots : tab[m] = tab[n] /\ tab[m] # Empty => m = n
  BY DEF Sound
<1>2. ASSUME NEW n \in Slots, tab[n] \in Names PROVE KnowIn(tab, kn)[tab[n]] = kn[n]
  <2>1. tab[n] # Empty
    BY <1>2, ConstantsAre DEF Named
  <2>2. {i \in Slots : tab[i] = tab[n]} = {n}
    BY <1>1, <2>1
  <2>3. (CHOOSE m \in {i \in Slots : tab[i] = tab[n]} : TRUE) = n
    BY <2>2
  <2> QED
    BY <1>2, <2>2, <2>3 DEF KnowIn
<1>3. \A f \in Names : (\A n \in Slots : tab[n] # f) => KnowIn(tab, kn)[f] = 0
  BY DEF KnowIn
<1>4. \A f \in Names : KnowIn(tab, kn)[f] \in Times
  <2> TAKE f \in Names
  <2>1. CASE \E n \in Slots : tab[n] = f
    BY <1>2, <2>1 DEF Sound
  <2>2. CASE \A n \in Slots : tab[n] # f
    BY <1>3, <2>2, ConstantsAre DEF Times
  <2> QED
    BY <2>1, <2>2
<1>5. KnowIn(tab, kn) = [f \in Names |-> KnowIn(tab, kn)[f]]
  BY DEF KnowIn
<1> QED
  BY <1>2, <1>3, <1>4, <1>5

-----------------------------------------------------------------------------
(* What the steps do to the tables, by number and by name *)

LEMMA AloneIsSound ==
    Sound([n \in Slots |-> IF n = NoFile THEN NoFileName ELSE Empty], Zeros, {}, {})
<1> DEFINE tab == [n \in Slots |-> IF n = NoFile THEN NoFileName ELSE Empty]
<1>1. tab \in Table /\ tab[NoFile] = NoFileName
  BY NoFileIs DEF Table
<1>2. \A m, n \in Slots : tab[m] = tab[n] /\ tab[m] # Empty => m = n
  BY ConstantsAre DEF Named
<1>3. Zeros \in [Slots -> Times]
  BY ConstantsAre DEF Zeros, Times
<1>4. IsFiniteSet({})
  BY FS_EmptySet
<1> HIDE DEF tab
<1>5. Sound(tab, Zeros, {}, {})
  BY <1>1, <1>2, <1>3, <1>4 DEF Sound, Zeros
<1> QED
  BY <1>5 DEF tab

\* A name gets a number that no other has
LEMMA NewNameIs ==
    ASSUME NEW tab, NEW kn, NEW del, NEW rs, Sound(tab, kn, del, rs),
           NEW p \in Slots, tab[p] = Empty, NEW name \in Named, \A n \in Slots : tab[n] # name
    PROVE  LET new == [tab EXCEPT ![p] = name]
           IN  /\ Sound(new, kn, del, rs)
               /\ RefsIn(new, rs) = RefsIn(tab, rs) /\ KnowIn(new, kn) = KnowIn(tab, kn)
               /\ GoneIn(new, del) = GoneIn(tab, del)
<1> DEFINE new == [tab EXCEPT ![p] = name]
<1>1. tab \in Table /\ \A n \in Slots : tab[n] \in Named \cup {Empty}
  BY DEF Sound, Table, Named
<1>2. new \in Table /\ \A n \in Slots : new[n] = IF n = p THEN name ELSE tab[n]
  BY <1>1 DEF Table, Named
<1> HIDE DEF new
<1>3. \A n \in Slots : tab[n] # Empty => n # p /\ new[n] = tab[n]
  BY <1>2
<1>4. new[NoFile] = NoFileName
  BY <1>3, NoFileIs, ConstantsAre DEF Sound, Named
<1>5. \A m, n \in Slots : new[m] = new[n] /\ new[m] # Empty => m = n
  BY <1>2 DEF Sound
<1>6. \A n \in Slots : tab[n] \in Names => new[n] = tab[n]
  BY <1>3, ConstantsAre DEF Named
<1>7. \A n \in Slots : new[n] \notin Names => kn[n] = 0
  BY <1>6 DEF Sound
<1>8. del \subseteq {n \in Slots : new[n] \in Removable} /\ \A n \in del : new[n] = tab[n]
  BY <1>6, ConstantsAre DEF Sound
<1>9. ItemsOf(tab) \subseteq ItemsOf(new)
  BY <1>6, ConstantsAre DEF ItemsOf
<1>10. RefsOf(tab) \subseteq RefsOf(new)
  BY <1>6, <1>9 DEF RefsOf
<1>11. Sound(new, kn, del, rs)
  BY <1>2, <1>4, <1>5, <1>7, <1>8, <1>10 DEF Sound
<1>12. ASSUME NEW r \in rs PROVE ByName(new, r) = ByName(tab, r)
  <2>1. r \in RefsOf(tab) /\ r \in RefsOf(new)
    BY <1>10 DEF Sound
  <2>2. new[r.file] = tab[r.file]
    BY <1>6, <2>1, ByNameIs
  <2>3. new[r.item.include] = tab[r.item.include]
    <3>1. r.item \in ItemsOf(tab)
      BY <2>1, ByNameIs
    <3>2. r.item.include = NoFile \/ (r.item.include \in Slots /\ tab[r.item.include] \in Names)
      BY <3>1, ConstantsAre DEF ItemsOf
    <3> QED
      BY <1>4, <1>6, <3>2 DEF Sound
  <2>4. ItemNamed(new, r.item) = ItemNamed(tab, r.item)
    BY <2>3 DEF ItemNamed
  <2>5. ByName(new, r) = [item |-> ItemNamed(new, r.item), file |-> new[r.file], line |-> r.line, usage |-> r.usage]
    BY <2>1, ByNameIs
  <2>6. ByName(tab, r) = [item |-> ItemNamed(tab, r.item), file |-> tab[r.file], line |-> r.line, usage |-> r.usage]
    BY <2>1, ByNameIs
  <2> QED
    BY <2>2, <2>4, <2>5, <2>6
<1>13. RefsIn(new, rs) = RefsIn(tab, rs)
  BY <1>12 DEF RefsIn
<1>14. KnowIn(new, kn) = KnowIn(tab, kn)
  <2>1. \A f \in Names : KnowIn(new, kn)[f] = KnowIn(tab, kn)[f]
    <3> TAKE f \in Names
    <3>1. CASE \E n \in Slots : tab[n] = f
      <4>1. PICK n \in Slots : tab[n] = f
        BY <3>1
      <4>2. new[n] = f
        BY <1>6, <4>1
      <4>3. KnowIn(tab, kn)[f] = kn[n]
        BY <4>1, KnowIs
      <4>4. KnowIn(new, kn)[f] = kn[n]
        BY <1>11, <4>2, KnowIs
      <4> QED
        BY <4>3, <4>4
    <3>2. CASE \A n \in Slots : tab[n] # f
      <4>1. KnowIn(tab, kn)[f] = 0
        BY <3>2, KnowIs
      <4>2. CASE f # name
        <5>1. \A n \in Slots : new[n] # f
          BY <1>2, <3>2, <4>2
        <5> QED
          BY <1>11, <4>1, <5>1, KnowIs
      <4>3. CASE f = name
        <5>1. kn[p] = 0
          BY ConstantsAre DEF Sound, Named
        <5>2. new[p] = f
          BY <1>2, <4>3
        <5> QED
          BY <1>11, <4>1, <5>1, <5>2, KnowIs
      <4> QED
        BY <4>2, <4>3
    <3> QED
      BY <3>1, <3>2
  <2>2. KnowIn(new, kn) \in [Names -> Times] /\ KnowIn(tab, kn) \in [Names -> Times]
    BY <1>11, KnowIs
  <2> QED
    BY <2>1, <2>2
<1>15. GoneIn(new, del) = GoneIn(tab, del)
  BY <1>8 DEF GoneIn
<1> QED
  BY <1>11, <1>13, <1>14, <1>15 DEF new

LEMMA KnownNow ==
    ASSUME NEW tab, NEW kn, NEW del, NEW rs, Sound(tab, kn, del, rs),
           NEW n \in Slots, tab[n] \in Names, NEW time \in Times
    PROVE  /\ Sound(tab, [kn EXCEPT ![n] = time], del, rs)
           /\ KnowIn(tab, [kn EXCEPT ![n] = time]) = [KnowIn(tab, kn) EXCEPT ![tab[n]] = time]
<1> DEFINE now == [kn EXCEPT ![n] = time]
<1>1. kn \in [Slots -> Times] /\ \A i \in Slots : tab[i] \notin Names => kn[i] = 0
  BY DEF Sound
<1>2. now \in [Slots -> Times] /\ \A i \in Slots : now[i] = IF i = n THEN time ELSE kn[i]
  BY <1>1
<1> HIDE DEF now
<1>3. \A i \in Slots : tab[i] \notin Names => now[i] = 0
  BY <1>1, <1>2
<1>4. Sound(tab, now, del, rs)
  BY <1>2, <1>3 DEF Sound
<1> DEFINE known == [KnowIn(tab, kn) EXCEPT ![tab[n]] = time]
<1>5. KnowIn(tab, kn) \in [Names -> Times]
  BY KnowIs
<1>6. \A f \in Names : known[f] = IF f = tab[n] THEN time ELSE KnowIn(tab, kn)[f]
  BY <1>5
<1>7. \A f \in Names : KnowIn(tab, now)[f] = known[f]
  <2> TAKE f \in Names
  <2>1. CASE \E i \in Slots : tab[i] = f
    <3>1. PICK i \in Slots : tab[i] = f
      BY <2>1
    <3>2. KnowIn(tab, kn)[f] = kn[i] /\ KnowIn(tab, now)[f] = now[i]
      BY <1>4, <3>1, KnowIs
    <3>3. (f = tab[n]) <=> (i = n)
      BY <3>1, ConstantsAre DEF Sound, Named
    <3> HIDE DEF known
    <3> QED
      BY <1>2, <1>6, <3>2, <3>3
  <2>2. CASE \A i \in Slots : tab[i] # f
    <3>1. KnowIn(tab, kn)[f] = 0 /\ KnowIn(tab, now)[f] = 0
      BY <1>4, <2>2, KnowIs
    <3> HIDE DEF known
    <3> QED
      BY <1>6, <2>2, <3>1
  <2> QED
    BY <2>1, <2>2
<1>8. KnowIn(tab, now) \in [Names -> Times]
  BY <1>4, KnowIs
<1>9. KnowIn(tab, now) = known
  <2>1. known \in [Names -> Times]
    BY <1>5
  <2> HIDE DEF known
  <2> QED
    BY <1>7, <1>8, <2>1
<1> QED
  BY <1>4, <1>9 DEF now

\* The references of a file go
\* References of other files
NotOf(rs, n) == {r \in rs : r.file # n}

LEMMA WithoutIs ==
    ASSUME NEW tab, NEW kn, NEW del, NEW rs, Sound(tab, kn, del, rs), NEW n \in Slots, tab[n] \in Names
    PROVE  /\ Sound(tab, kn, del, NotOf(rs, n))
           /\ tab[n] \in Removable => Sound(tab, kn, del \cup {n}, NotOf(rs, n))
           /\ RefsIn(tab, NotOf(rs, n)) = NotOf(RefsIn(tab, rs), tab[n])
<1> DEFINE left == NotOf(rs, n)
<1>1. IsFiniteSet(left)
  BY FS_Subset DEF Sound, NotOf
<1>2. \A r \in left : r \in rs /\ r.file # n
  BY DEF NotOf
<1>3. \A r \in rs : r.file # n => r \in left
  BY DEF NotOf
<1> HIDE DEF left
<1>4. Sound(tab, kn, del, left)
  BY <1>1, <1>2 DEF Sound
<1>5. tab[n] \in Removable => Sound(tab, kn, del \cup {n}, left)
  BY <1>1, <1>2 DEF Sound
<1>6. \A r \in rs : (ByName(tab, r).file # tab[n]) <=> (r.file # n)
  <2> TAKE r \in rs
  <2>1. r \in RefsOf(tab)
    BY DEF Sound
  <2>2. ByName(tab, r).file = tab[r.file] /\ r.file \in Slots /\ tab[r.file] \in Names
    BY <2>1, ByNameIs
  <2>3. tab[n] # Empty
    BY ConstantsAre DEF Named
  <2> QED
    BY <2>2, <2>3 DEF Sound
<1>7. RefsIn(tab, left) = NotOf(RefsIn(tab, rs), tab[n])
  BY <1>2, <1>3, <1>6 DEF RefsIn, NotOf
<1> QED
  BY <1>4, <1>5, <1>7 DEF left

LEMMA AddedIs ==
    ASSUME NEW tab, NEW kn, NEW del, NEW rs, Sound(tab, kn, del, rs), NEW r \in RefsOf(tab), r.file \notin del
    PROVE  /\ Sound(tab, kn, del, Added(rs, r))
           /\ RefsIn(tab, Added(rs, r)) = Added(RefsIn(tab, rs), ByName(tab, r))
<1> DEFINE others == {q \in rs : Place(q) # Place(r)}
<1>1. Added(rs, r) = others \cup {r}
  BY DEF Added
<1>2. IsFiniteSet(others)
  BY FS_Subset DEF Sound
<1>3. IsFiniteSet(others \cup {r})
  BY <1>2, FS_AddElement
<1>4. others \subseteq rs /\ \A q \in others : Place(q) # Place(r)
  OBVIOUS
<1>5. \A q \in rs : Place(q) # Place(r) => q \in others
  OBVIOUS
<1> HIDE DEF others
<1>6. Sound(tab, kn, del, others \cup {r})
  BY <1>3, <1>4 DEF Sound
<1>7. rs \subseteq RefsOf(tab)
  BY DEF Sound
<1>8. \A q \in rs : (Place(q) = Place(r)) <=> (Place(ByName(tab, q)) = Place(ByName(tab, r)))
  BY <1>7, SamePlaces
<1>9. RefsIn(tab, others \cup {r}) = Added(RefsIn(tab, rs), ByName(tab, r))
  BY <1>4, <1>5, <1>8 DEF RefsIn, Added
<1> QED
  BY <1>1, <1>6, <1>9

-----------------------------------------------------------------------------
(* What the records mean, whoever reads them *)

NumberKeys == NumberTags \ {"r"}
Records == [tag : NumberTags \cup {"v", "@", ":", "/"},
            data : Nat \cup Named \cup LinkNames \cup {"#include"} \cup {KeyList}]

NamedItems ==
  [type : {TypeDefault}, name : LinkNames, visibility : {"global", "local"}, include : {NoFileName}]
  \cup [type : {TypeCppInclude}, name : {"#include"}, visibility : {"global"}, include : Included]
NamedRefs == [item : NamedItems, file : Names, line : Lines, usage : Usages]

\* What is known after a record: the last numbers, the names of the numbers, the
\* item, and the references and knowledge times so far, by name
Meanings ==
  [last : [NumberTags -> Nat], named : [Slots -> Named \cup {Empty}], item : NamedItems \cup {NoItem},
   refs : SUBSET NamedRefs, know : [Named -> Times]]

AtFirst ==
  [last |-> [t \in NumberTags |-> 0], named |-> [n \in Slots |-> IF n = NoFile THEN NoFileName ELSE Empty],
   item |-> NoItem, refs |-> {}, know |-> [f \in Named |-> 0]]

MeansNumber(g, rec, h) ==
  rec.tag \in NumberKeys /\ rec.data \in Nat /\ h = [g EXCEPT !.last = [g.last EXCEPT ![rec.tag] = rec.data]]

NamesMeant(g, rec) == [g.named EXCEPT ![g.last["f"]] = rec.data]
TimesMeant(g, rec) ==
  [g.know EXCEPT ![rec.data] = IF g.know[rec.data] = 0 THEN g.last["w"] ELSE g.know[rec.data]]
MeansFile(g, rec, h) ==
  /\ rec.tag = ":" /\ rec.data \in Named
  /\ g.last["f"] \in Slots /\ g.last["w"] \in Times /\ (rec.data = NoFileName => g.last["w"] = 0)
  /\ h = [g EXCEPT !.named = NamesMeant(g, rec), !.know = TimesMeant(g, rec)]

ItemMeant(g, rec) == Item(g.last["t"], rec.data, "global", g.named[g.last["d"]])
MeansItem(g, rec, h) ==
  /\ rec.tag = "/" /\ g.last["d"] \in Slots /\ ItemMeant(g, rec) \in NamedItems
  /\ h = [g EXCEPT !.item = ItemMeant(g, rec)]

ReferenceMeant(g) ==
  [item |-> g.item, file |-> g.named[g.last["f"]], line |-> g.last["l"], usage |-> g.last["u"]]
MeansReference(g, rec, h) ==
  /\ rec.tag = "r" /\ g.last["f"] \in Slots /\ ReferenceMeant(g) \in NamedRefs
  /\ \A q \in g.refs : Place(q) = Place(ReferenceMeant(g)) => q = ReferenceMeant(g)
  /\ h = [g EXCEPT !.refs = g.refs \cup {ReferenceMeant(g)}]

Means(g, rec, h) ==
  MeansNumber(g, rec, h) \/ MeansFile(g, rec, h) \/ MeansItem(g, rec, h) \/ MeansReference(g, rec, h)

\* ms[i] is what is known after i records
Meant(file, ms) ==
  /\ file \in Seq(Records)
  /\ Len(file) >= 1 => file[1] = Record("v", Version)
  /\ Len(file) >= 2 => file[2] = Record("@", KeyList)
  /\ \A i \in 0..Len(file) : ms[i] \in Meanings
  /\ \A i \in 0..Len(file) : i <= 2 => ms[i] = AtFirst
  /\ \A i \in 3..Len(file) : Means(ms[i - 1], file[i], ms[i])

\* Of what is to be kept it is a part
Part(g, kept) == g.refs \subseteq kept.refs /\ \A f \in Names : g.know[f] \in {0, kept.know[f]}
Parts(file, ms, kept) == \A i \in 0..Len(file) : Part(ms[i], kept)

Tells(file, g, kept) ==
  /\ file \in Seq(Records) /\ Len(file) >= 2
  /\ \E ms : Meant(file, ms) /\ Parts(file, ms, kept) /\ ms[Len(file)] = g

\* The writer's last numbers are those that a reader has
Writes(w, g, kept) ==
  /\ w = [out |-> w.out, last |-> w.last]
  /\ w.last \in [NumberTags -> Int] /\ \A t \in NumberKeys : w.last[t] \in {-1, g.last[t]}
  /\ g \in Meanings
  /\ Tells(w.out, g, kept)

LEMMA AtFirstIs == AtFirst \in Meanings
<1>1. [t \in NumberTags |-> 0] \in [NumberTags -> Nat]
  OBVIOUS
<1>2. [n \in Slots |-> IF n = NoFile THEN NoFileName ELSE Empty] \in [Slots -> Named \cup {Empty}]
  BY DEF Named
<1>3. [f \in Named |-> 0] \in [Named -> Times]
  BY ConstantsAre DEF Times
<1> QED
  BY <1>1, <1>2, <1>3 DEF AtFirst, Meanings

LEMMA MeansTyped ==
    ASSUME NEW g \in Meanings, NEW rec, NEW h, Means(g, rec, h)
    PROVE  h \in Meanings
<1>1. /\ g.last \in [NumberTags -> Nat] /\ g.named \in [Slots -> Named \cup {Empty}]
      /\ g.item \in NamedItems \cup {NoItem} /\ g.refs \subseteq NamedRefs /\ g.know \in [Named -> Times]
      /\ g = [last |-> g.last, named |-> g.named, item |-> g.item, refs |-> g.refs, know |-> g.know]
  BY DEF Meanings
<1>2. CASE MeansNumber(g, rec, h)
  <2> DEFINE last == [g.last EXCEPT ![rec.tag] = rec.data]
  <2>1. last \in [NumberTags -> Nat]
    BY <1>1, <1>2 DEF MeansNumber, NumberKeys
  <2>2. h = [g EXCEPT !.last = last]
    BY <1>2 DEF MeansNumber
  <2> HIDE DEF last
  <2> QED
    BY <2>1, <2>2 DEF Meanings
<1>3. CASE MeansFile(g, rec, h)
  <2>1. NamesMeant(g, rec) \in [Slots -> Named \cup {Empty}]
    BY <1>1, <1>3 DEF MeansFile, NamesMeant
  <2>2. TimesMeant(g, rec) \in [Named -> Times]
    BY <1>1, <1>3 DEF MeansFile, TimesMeant
  <2>3. h = [g EXCEPT !.named = NamesMeant(g, rec), !.know = TimesMeant(g, rec)]
    BY <1>3 DEF MeansFile
  <2> QED
    BY <2>1, <2>2, <2>3 DEF Meanings
<1>4. CASE MeansItem(g, rec, h)
  <2>1. ItemMeant(g, rec) \in NamedItems /\ h = [g EXCEPT !.item = ItemMeant(g, rec)]
    BY <1>4 DEF MeansItem
  <2> QED
    BY <2>1 DEF Meanings
<1>5. CASE MeansReference(g, rec, h)
  <2> DEFINE new == g.refs \cup {ReferenceMeant(g)}
  <2>1. new \subseteq NamedRefs /\ h = [g EXCEPT !.refs = new]
    BY <1>1, <1>5 DEF MeansReference
  <2> HIDE DEF new
  <2> QED
    BY <2>1 DEF Meanings
<1> QED
  BY <1>2, <1>3, <1>4, <1>5 DEF Means

\* One record more
LEMMA TellsMore ==
    ASSUME NEW file, NEW g \in Meanings, NEW kept, Tells(file, g, kept),
           NEW rec \in Records, NEW h, Means(g, rec, h), Part(h, kept)
    PROVE  Tells(Append(file, rec), h, kept) /\ h \in Meanings
<1> DEFINE n == Len(file)
           more == Append(file, rec)
<1>1. h \in Meanings
  BY MeansTyped
<1>2. file \in Seq(Records) /\ n \in Nat /\ n >= 2
  BY DEF Tells
<1>3. more \in Seq(Records) /\ Len(more) = n + 1 /\ (\A i \in 1..n : more[i] = file[i]) /\ more[n + 1] = rec
  BY <1>2
<1>4. PICK ms : Meant(file, ms) /\ Parts(file, ms, kept) /\ ms[n] = g
  BY DEF Tells
<1> DEFINE ns == [i \in 0..(n + 1) |-> IF i = n + 1 THEN h ELSE ms[i]]
<1>5. ns[n + 1] = h /\ \A i \in 0..n : ns[i] = ms[i]
  BY <1>2
<1> HIDE DEF n, more, ns
<1>6. \A i \in 0..(n + 1) : i # n + 1 => i \in 0..n
  BY <1>2
<1>7. /\ \A i \in 0..n : ms[i] \in Meanings
      /\ \A i \in 0..n : i <= 2 => ms[i] = AtFirst
      /\ \A i \in 3..n : Means(ms[i - 1], file[i], ms[i])
      /\ file[1] = Record("v", Version) /\ file[2] = Record("@", KeyList)
  BY <1>2, <1>4 DEF Meant, n
<1>8. \A i \in 0..(n + 1) : ns[i] \in Meanings /\ Part(ns[i], kept)
  BY <1>1, <1>4, <1>5, <1>6, <1>7 DEF Parts, n
<1>9. \A i \in 0..(n + 1) : i <= 2 => ns[i] = AtFirst
  BY <1>2, <1>5, <1>6, <1>7
<1>10. \A i \in 3..(n + 1) : Means(ns[i - 1], more[i], ns[i])
  <2> TAKE i \in 3..(n + 1)
  <2>1. CASE i = n + 1
    <3>1. i - 1 = n /\ n \in 0..n
      BY <1>2, <2>1
    <3>2. ns[i - 1] = g
      BY <1>4, <1>5, <3>1
    <3> QED
      BY <1>3, <1>5, <2>1, <3>2
  <2>2. CASE i # n + 1
    <3>1. i \in 3..n /\ i - 1 \in 0..n /\ i \in 0..n /\ i \in 1..n
      BY <1>2, <2>2
    <3> QED
      BY <1>3, <1>5, <1>7, <3>1
  <2> QED
    BY <2>1, <2>2
<1>11. more[1] = Record("v", Version) /\ more[2] = Record("@", KeyList)
  BY <1>2, <1>3, <1>7
<1>12. Meant(more, ns) /\ Parts(more, ns, kept)
  BY <1>3, <1>8, <1>9, <1>10, <1>11 DEF Meant, Parts
<1>13. ns[Len(more)] = h /\ Len(more) >= 2
  BY <1>2, <1>3, <1>5
<1> QED
  BY <1>1, <1>3, <1>12, <1>13 DEF Tells, more

-----------------------------------------------------------------------------
(* Writing *)

LastNow(g, t, d) == [g EXCEPT !.last = [g.last EXCEPT ![t] = d]]

LEMMA LastNowIs ==
    ASSUME NEW g \in Meanings, NEW t \in NumberKeys, NEW d \in Nat
    PROVE  /\ LastNow(g, t, d) \in Meanings
           /\ LastNow(g, t, d).last = [g.last EXCEPT ![t] = d]
           /\ LastNow(g, t, d).named = g.named /\ LastNow(g, t, d).item = g.item
           /\ LastNow(g, t, d).refs = g.refs /\ LastNow(g, t, d).know = g.know
<1> DEFINE last == [g.last EXCEPT ![t] = d]
<1>1. g.last \in [NumberTags -> Nat]
  BY DEF Meanings
<1>2. last \in [NumberTags -> Nat] /\ last[t] = d /\ \A s \in NumberTags : s # t => last[s] = g.last[s]
  BY <1>1 DEF NumberKeys
<1>3. LastNow(g, t, d) = [g EXCEPT !.last = last]
  BY DEF LastNow
<1> HIDE DEF last
<1>4. /\ LastNow(g, t, d) \in Meanings /\ LastNow(g, t, d).last = last
      /\ LastNow(g, t, d).named = g.named /\ LastNow(g, t, d).item = g.item
      /\ LastNow(g, t, d).refs = g.refs /\ LastNow(g, t, d).know = g.know
  BY <1>2, <1>3 DEF Meanings
<1> QED
  BY <1>2, <1>4 DEF last

LEMMA LastNowLast ==
    ASSUME NEW g \in Meanings, NEW t \in NumberKeys, NEW d \in Nat
    PROVE  /\ LastNow(g, t, d).last[t] = d
           /\ \A s \in NumberTags : s # t => LastNow(g, t, d).last[s] = g.last[s]
<1>1. t \in NumberTags
  BY DEF NumberKeys
<1>2. LastNow(g, t, d).last = [g.last EXCEPT ![t] = d]
  BY LastNowIs
<1>3. g.last \in [NumberTags -> Nat]
  BY DEF Meanings
<1> QED
  BY <1>1, <1>2, <1>3

LEMMA LastNowKeeps ==
    ASSUME NEW g \in Meanings, NEW t \in NumberKeys, NEW d \in Nat
    PROVE  /\ LastNow(g, t, d).named = g.named /\ LastNow(g, t, d).item = g.item
           /\ LastNow(g, t, d).refs = g.refs /\ LastNow(g, t, d).know = g.know
BY LastNowIs

LEMMA WritesFields ==
    ASSUME NEW w, NEW g, NEW kept, Writes(w, g, kept)
    PROVE  /\ w = [out |-> w.out, last |-> w.last] /\ w.last \in [NumberTags -> Int]
           /\ \A t \in NumberKeys : w.last[t] \in {-1, g.last[t]}
           /\ g \in Meanings /\ Tells(w.out, g, kept) /\ Part(g, kept)
<1>1. \E ms : Meant(w.out, ms) /\ Parts(w.out, ms, kept) /\ ms[Len(w.out)] = g
  BY DEF Writes, Tells
<1>2. Len(w.out) \in 0..Len(w.out)
  BY DEF Writes, Tells
<1>3. Part(g, kept)
  BY <1>1, <1>2 DEF Parts
<1> QED
  BY <1>3 DEF Writes

LEMMA HeadWritten ==
    ASSUME NEW kept
    PROVE  Writes(FileHead, AtFirst, kept)
<1> DEFINE head == <<Record("v", Version), Record("@", KeyList)>>
           ms == [i \in 0..2 |-> AtFirst]
<1>1. Record("v", Version) \in Records /\ Record("@", KeyList) \in Records
  BY DEF Record, Records, Version
<1>2. head \in Seq(Records) /\ Len(head) = 2 /\ head[1] = Record("v", Version) /\ head[2] = Record("@", KeyList)
  BY <1>1
<1>3. \A i \in 0..2 : ms[i] = AtFirst
  OBVIOUS
<1>4. ms[2] = AtFirst
  BY <1>3
<1>5. Part(AtFirst, kept)
  BY DEF Part, AtFirst, Named
<1> HIDE DEF head, ms
<1>6. Meant(head, ms)
  BY <1>2, <1>3, AtFirstIs DEF Meant
<1>7. Tells(head, AtFirst, kept)
  BY <1>2, <1>3, <1>4, <1>5, <1>6 DEF Tells, Parts
<1>8. FileHead.out = head /\ FileHead.last = [t \in NumberTags |-> -1] /\ FileHead = [out |-> FileHead.out, last |-> FileHead.last]
  BY DEF FileHead, head
<1>9. [t \in NumberTags |-> -1] \in [NumberTags -> Int] /\ \A t \in NumberKeys : [s \in NumberTags |-> -1][t] = -1
  BY DEF NumberKeys
<1> QED
  BY <1>7, <1>8, <1>9, AtFirstIs DEF Writes

LEMMA NumberWritten ==
    ASSUME NEW w, NEW g, NEW kept, Writes(w, g, kept), NEW t \in NumberKeys, NEW d \in Nat
    PROVE  Writes(OptionalCompact(w, t, d), LastNow(g, t, d), kept)
<1>1. /\ w = [out |-> w.out, last |-> w.last] /\ w.last \in [NumberTags -> Int]
      /\ \A s \in NumberKeys : w.last[s] \in {-1, g.last[s]}
      /\ g \in Meanings /\ Tells(w.out, g, kept) /\ Part(g, kept)
  BY WritesFields
<1>2. CASE w.last[t] = d
  <2>1. g.last[t] = d /\ g.last \in [NumberTags -> Nat]
    BY <1>1, <1>2 DEF Meanings
  <2>2. [g.last EXCEPT ![t] = d] = g.last
    BY <2>1
  <2>3. LastNow(g, t, d) = g
    BY <1>1, <2>2 DEF LastNow, Meanings
  <2> QED
    BY <1>2, <2>3 DEF OptionalCompact
<1>3. CASE w.last[t] # d
  <2> DEFINE rec == Record(t, d)
             h == LastNow(g, t, d)
             last == [w.last EXCEPT ![t] = d]
             v == OptionalCompact(w, t, d)
  <2>1. v = [out |-> Append(w.out, rec), last |-> last]
    BY <1>3 DEF OptionalCompact, Compact
  <2>2. rec \in Records /\ rec.tag = t /\ rec.data = d
    BY DEF Record, Records, NumberKeys
  <2>3. Means(g, rec, h)
    <3>1. MeansNumber(g, rec, h)
      BY <2>2 DEF MeansNumber, LastNow
    <3> QED
      BY <3>1 DEF Means
  <2>4. /\ h.last[t] = d /\ h.refs = g.refs /\ h.know = g.know
        /\ \A s \in NumberTags : s # t => h.last[s] = g.last[s]
    <3> HIDE DEF rec, last, v
    <3>1. /\ LastNow(g, t, d).last[t] = d /\ LastNow(g, t, d).refs = g.refs /\ LastNow(g, t, d).know = g.know
          /\ \A s \in NumberTags : s # t => LastNow(g, t, d).last[s] = g.last[s]
      BY <1>1, LastNowLast, LastNowKeeps
    <3> QED
      BY <3>1
  <2>5. Part(h, kept)
    BY <1>1, <2>4 DEF Part
  <2> HIDE DEF h, rec
  <2>6. Tells(Append(w.out, rec), h, kept) /\ h \in Meanings
    BY <1>1, <2>2, <2>3, <2>5, TellsMore
  <2>7. last \in [NumberTags -> Int] /\ \A s \in NumberKeys : last[s] \in {-1, h.last[s]}
    BY <1>1, <2>4 DEF NumberKeys
  <2>8. v.out = Append(w.out, rec) /\ v.last = last /\ v = [out |-> v.out, last |-> v.last]
    BY <2>1
  <2> HIDE DEF last, v
  <2>9. Writes(v, h, kept)
    BY <2>6, <2>7, <2>8 DEF Writes
  <2> QED
    BY <2>9 DEF v, h
<1> QED
  BY <1>2, <1>3

LEMMA SameFields ==
    ASSUME NEW w, NEW out, NEW last, w = [out |-> out, last |-> last]
    PROVE  w \in [out : {out}, last : {last}]
OBVIOUS

LEMMA TextWritten ==
    ASSUME NEW w, NEW g, NEW kept, Writes(w, g, kept), NEW tag, NEW x, Record(tag, x) \in Records,
           NEW h, Means(g, Record(tag, x), h), h.last = g.last, Part(h, kept)
    PROVE  Writes(Text(w, tag, x), h, kept)
<1> DEFINE rec == Record(tag, x)
           v == Text(w, tag, x)
<1>1. /\ w = [out |-> w.out, last |-> w.last] /\ w.last \in [NumberTags -> Int]
      /\ \A s \in NumberKeys : w.last[s] \in {-1, g.last[s]}
      /\ g \in Meanings /\ Tells(w.out, g, kept)
  BY WritesFields
<1> DEFINE out == Append(w.out, rec)
<1>2. v.out = Append(w.out, rec) /\ v.last = w.last /\ v = [out |-> v.out, last |-> v.last]
  <2>1. v = [w EXCEPT !.out = out]
    BY DEF Text
  <2>2. w \in [out : {w.out}, last : {w.last}]
    BY <1>1, SameFields
  <2> HIDE DEF v, out
  <2>3. v = [out |-> out, last |-> w.last]
    BY <2>1, <2>2
  <2> QED
    BY <2>3 DEF out
<1> HIDE DEF rec, v
<1>3. Tells(Append(w.out, rec), h, kept) /\ h \in Meanings
  BY <1>1, TellsMore DEF rec
<1>4. \A s \in NumberKeys : w.last[s] \in {-1, h.last[s]}
  BY <1>1
<1>5. Writes(v, h, kept)
  BY <1>1, <1>2, <1>3, <1>4 DEF Writes
<1> QED
  BY <1>5 DEF v

FileMeant(g, kept, n, h) ==
  /\ h.named = [g.named EXCEPT ![n] = table[n]] /\ h.refs = g.refs
  /\ \A f \in Names : h.know[f] = IF f = table[n] THEN kept.know[f] ELSE g.know[f]

LEMMA FileWritten ==
    ASSUME NEW w, NEW g, NEW kept, Writes(w, g, kept),
           NEW n \in Slots, table[n] \in Named, know[n] \in Times,
           table[n] = NoFileName => know[n] = 0,
           table[n] \in Names => kept.know[table[n]] = know[n] /\ g.know[table[n]] \in {0, know[n]}
    PROVE  \E h \in Meanings : Writes(WriteFile(w, n), h, kept) /\ FileMeant(g, kept, n, h)
<1> DEFINE name == table[n]
           g1 == LastNow(g, "f", n)
           g2 == LastNow(g1, "w", know[n])
           w2 == OptionalCompact(OptionalCompact(w, "f", n), "w", know[n])
           rec == Record(":", name)
           h == [g2 EXCEPT !.named = NamesMeant(g2, rec), !.know = TimesMeant(g2, rec)]
<1>1. n \in Nat /\ know[n] \in Nat /\ "f" \in NumberKeys /\ "w" \in NumberKeys /\ "f" # "w"
  BY DEF Slots, Times, NumberKeys, NumberTags, KeyList
<1>2. g \in Meanings /\ Part(g, kept)
  BY WritesFields
<1>3. Writes(w2, g2, kept)
  <2>1. Writes(OptionalCompact(w, "f", n), g1, kept)
    BY <1>1, NumberWritten
  <2> HIDE DEF g1
  <2> QED
    BY <1>1, <2>1, NumberWritten
<1>4. g1 \in Meanings /\ g1.last["f"] = n /\ g1.named = g.named /\ g1.refs = g.refs /\ g1.know = g.know
  <2>1. g1 \in Meanings
    BY <1>1, <1>2, LastNowIs
  <2>2. g1.last["f"] = n
    BY <1>1, <1>2, LastNowLast
  <2> QED
    BY <1>1, <1>2, <2>1, <2>2, LastNowKeeps
<1>5. /\ g2 \in Meanings /\ g2.last["f"] = n /\ g2.last["w"] = know[n]
      /\ g2.named = g.named /\ g2.refs = g.refs /\ g2.know = g.know
  <2>1. "f" \in NumberTags
    BY <1>1 DEF NumberKeys
  <2> HIDE DEF g1
  <2>2. g2 = LastNow(g1, "w", know[n])
    OBVIOUS
  <2>3. g2 \in Meanings
    BY <1>1, <1>4, LastNowIs
  <2>6. g2.last["w"] = know[n]
    BY <1>1, <1>4, LastNowLast
  <2>4. g2.last["f"] = g1.last["f"]
    BY <1>1, <1>4, <2>1, LastNowLast
  <2>5. g2.named = g1.named /\ g2.refs = g1.refs /\ g2.know = g1.know
    BY <1>1, <1>4, LastNowKeeps
  <2> HIDE DEF g2
  <2> QED
    BY <1>4, <2>3, <2>4, <2>5, <2>6
<1> HIDE DEF g2, w2
<1>6. rec.tag = ":" /\ rec.data = name /\ rec \in Records
  BY DEF Record, Records, Named
<1> HIDE DEF rec
<1>7. MeansFile(g2, rec, h)
  BY <1>5, <1>6 DEF MeansFile
<1>8. Means(g2, rec, h)
  BY <1>7 DEF Means
<1>9. h \in Meanings
  BY <1>5, <1>8, MeansTyped
<1>10. h.named = NamesMeant(g2, rec) /\ h.know = TimesMeant(g2, rec) /\ h.refs = g.refs /\ h.last = g2.last
  BY <1>5 DEF Meanings
<1> HIDE DEF h
<1>11. h.named = [g.named EXCEPT ![n] = name]
  BY <1>5, <1>6, <1>10 DEF NamesMeant
<1>12. g.know \in [Named -> Times]
  BY <1>2 DEF Meanings
<1>13. \A f \in Names : h.know[f] = IF f = name THEN know[n] ELSE g.know[f]
  <2>1. \A f \in Named : h.know[f] = IF f = name THEN (IF g.know[f] = 0 THEN know[n] ELSE g.know[f]) ELSE g.know[f]
    BY <1>5, <1>6, <1>10, <1>12 DEF TimesMeant
  <2> QED
    BY <2>1 DEF Named
<1>14. Part(h, kept)
  BY <1>2, <1>10, <1>13 DEF Part
<1>15. Writes(Text(w2, ":", name), h, kept)
  BY <1>3, <1>6, <1>8, <1>10, <1>14, TextWritten DEF rec
<1>16. WriteFile(w, n) = Text(w2, ":", name)
  BY DEF WriteFile, w2
<1>17. FileMeant(g, kept, n, h)
  BY <1>10, <1>11, <1>13 DEF FileMeant
<1> QED
  BY <1>9, <1>15, <1>16, <1>17

\* An included file that is no more is not written, but references to it are:
\* see the README
HeadersStay == Included \cap Removable = {}

\* The files that are written have the names that they have in this server
FilesKnown(g) == \A n \in Slots : table[n] # Empty /\ n \notin deleted => g.named[n] = table[n]

ServerSound == Sound(table, know, deleted, refs)

LEMMA SavedIs ==
    ASSUME NEW whole
    PROVE  /\ Saved(whole).refs = {s \in RefsIn(table, refs) : s.item.visibility = "global"}
           /\ Saved(whole).know = [f \in Names |-> IF f \in GoneIn(table, deleted) THEN 0 ELSE KnowIn(table, know)[f]]
           /\ Saved(whole).whole = whole
           /\ RefsByName = RefsIn(table, refs) /\ KnowByName = KnowIn(table, know) /\ GoneByName = GoneIn(table, deleted)
<1>1. RefsByName = RefsIn(table, refs)
  BY DEF RefsByName, RefsIn, ByName
<1>2. KnowByName = KnowIn(table, know)
  BY DEF KnowByName, KnowIn, Numbers
<1>3. GoneByName = GoneIn(table, deleted)
  BY DEF GoneByName, GoneIn
<1> QED
  BY <1>1, <1>2, <1>3 DEF Saved

\* The number that an item or a reference has is that of a file that is written
LEMMA FilesAreWritten ==
    ASSUME HeadersStay, ServerSound
    PROVE  /\ \A i \in ItemsOf(table) : i.include \in Slots /\ table[i.include] # Empty /\ i.include \notin deleted
           /\ \A r \in refs : r \in RefsOf(table) /\ table[r.file] # Empty /\ r.file \notin deleted
<1>1. /\ table[NoFile] = NoFileName /\ deleted \subseteq {n \in Slots : table[n] \in Removable}
      /\ refs \subseteq RefsOf(table) /\ \A r \in refs : r.file \notin deleted
  BY DEF ServerSound, Sound
<1>2. ASSUME NEW i \in ItemsOf(table)
      PROVE  i.include \in Slots /\ table[i.include] # Empty /\ i.include \notin deleted
  <2>1. CASE i.include = NoFile
    BY <1>1, <2>1, NoFileIs, ConstantsAre DEF Named
  <2>2. CASE i.include \in Slots /\ table[i.include] \in Included
    BY <1>1, <2>2, ConstantsAre DEF Named, HeadersStay
  <2> QED
    BY <2>1, <2>2 DEF ItemsOf
<1>3. ASSUME NEW r \in refs
      PROVE  r \in RefsOf(table) /\ table[r.file] # Empty /\ r.file \notin deleted
  BY <1>1, ByNameIs, ConstantsAre DEF Named
<1> QED
  BY <1>2, <1>3

LEMMA ItemNamedIn ==
    ASSUME ServerSound, NEW i \in ItemsOf(table)
    PROVE  ItemNamed(table, i) \in NamedItems
<1>1. ItemNamed(table, i) = [type |-> i.type, name |-> i.name, visibility |-> i.visibility, include |-> table[i.include]]
  BY ItemNamedIs
<1>2. table[NoFile] = NoFileName
  BY DEF ServerSound, Sound
<1>3. \/ i.type = TypeDefault /\ i.name \in LinkNames /\ i.visibility \in {"global", "local"} /\ i.include = NoFile
      \/ i.type = TypeCppInclude /\ i.name = "#include" /\ i.visibility = "global" /\ table[i.include] \in Included
  BY DEF ItemsOf
<1> QED
  BY <1>1, <1>2, <1>3 DEF NamedItems

LEMMA RefNamedIn ==
    ASSUME ServerSound, NEW r \in RefsOf(table)
    PROVE  ByName(table, r) \in NamedRefs
<1>1. /\ ByName(table, r) = [item |-> ItemNamed(table, r.item), file |-> table[r.file], line |-> r.line, usage |-> r.usage]
      /\ r.item \in ItemsOf(table) /\ table[r.file] \in Names /\ r.line \in Lines /\ r.usage \in Usages
  BY ByNameIs
<1>2. ItemNamed(table, r.item) \in NamedItems
  BY <1>1, ItemNamedIn
<1> QED
  BY <1>1, <1>2 DEF NamedRefs

LEMMA HeadOfItemWritten ==
    ASSUME HeadersStay, ServerSound, NEW w, NEW g, NEW kept, Writes(w, g, kept), FilesKnown(g),
           NEW i \in ItemsOf(table), i.visibility = "global"
    PROVE  \E h \in Meanings :
             /\ Writes(Text(OptionalCompact(OptionalCompact(w, "t", i.type), "d", i.include), "/", i.name), h, kept)
             /\ h.named = g.named /\ h.refs = g.refs /\ h.know = g.know /\ h.item = ItemNamed(table, i)
<1> DEFINE g1 == LastNow(g, "t", i.type)
           g2 == LastNow(g1, "d", i.include)
           w2 == OptionalCompact(OptionalCompact(w, "t", i.type), "d", i.include)
           rec == Record("/", i.name)
           h == [g2 EXCEPT !.item = ItemMeant(g2, rec)]
<1>1. "t" \in NumberKeys /\ "d" \in NumberKeys /\ "d" # "t" /\ "t" \in NumberTags
  BY DEF NumberKeys, NumberTags, KeyList
<1>2. i.include \in Slots /\ table[i.include] # Empty /\ i.include \notin deleted
  BY FilesAreWritten
<1>3. i.type \in Nat /\ i.include \in Nat
  BY <1>2 DEF ItemsOf, TypeDefault, TypeCppInclude, Slots
<1>4. g \in Meanings /\ Part(g, kept)
  BY WritesFields
<1>5. Writes(w2, g2, kept)
  <2>1. Writes(OptionalCompact(w, "t", i.type), g1, kept)
    BY <1>1, <1>3, NumberWritten
  <2> HIDE DEF g1
  <2> QED
    BY <1>1, <1>3, <2>1, NumberWritten
<1>6. g1 \in Meanings /\ g1.last["t"] = i.type /\ g1.named = g.named /\ g1.refs = g.refs /\ g1.know = g.know
  <2>1. g1 \in Meanings
    BY <1>1, <1>3, <1>4, LastNowIs
  <2>2. g1.last["t"] = i.type
    BY <1>1, <1>3, <1>4, LastNowLast
  <2> QED
    BY <1>1, <1>3, <1>4, <2>1, <2>2, LastNowKeeps
<1>7. /\ g2 \in Meanings /\ g2.last["t"] = i.type /\ g2.last["d"] = i.include
      /\ g2.named = g.named /\ g2.refs = g.refs /\ g2.know = g.know
  <2> HIDE DEF g1
  <2>1. g2 \in Meanings
    BY <1>1, <1>3, <1>6, LastNowIs
  <2>2. g2.last["d"] = i.include
    BY <1>1, <1>3, <1>6, LastNowLast
  <2>3. g2.last["t"] = g1.last["t"]
    BY <1>1, <1>3, <1>6, LastNowLast
  <2>4. g2.named = g1.named /\ g2.refs = g1.refs /\ g2.know = g1.know
    BY <1>1, <1>3, <1>6, LastNowKeeps
  <2> HIDE DEF g2
  <2> QED
    BY <1>6, <2>1, <2>2, <2>3, <2>4
<1> HIDE DEF g2, w2
<1>8. rec.tag = "/" /\ rec.data = i.name /\ rec \in Records
  BY DEF Record, Records, ItemsOf
<1>9. Record("/", i.name) = rec
  OBVIOUS
<1> HIDE DEF rec
<1>10. g2.named[i.include] = table[i.include]
  BY <1>2, <1>7 DEF FilesKnown
<1>11. ItemMeant(g2, rec) = ItemNamed(table, i)
  <2>1. ItemMeant(g2, rec) = Item(i.type, i.name, "global", table[i.include])
    BY <1>7, <1>8, <1>10 DEF ItemMeant
  <2>2. ItemNamed(table, i) = [type |-> i.type, name |-> i.name, visibility |-> i.visibility, include |-> table[i.include]]
    BY ItemNamedIs
  <2> QED
    BY <2>1, <2>2 DEF Item
<1>12. ItemNamed(table, i) \in NamedItems
  BY ItemNamedIn
<1>13. MeansItem(g2, rec, h)
  BY <1>2, <1>7, <1>8, <1>11, <1>12 DEF MeansItem
<1>14. Means(g2, rec, h)
  BY <1>13 DEF Means
<1>15. h \in Meanings
  BY <1>7, <1>14, MeansTyped
<1>16. h.named = g2.named /\ h.know = g2.know /\ h.refs = g2.refs /\ h.last = g2.last /\ h.item = ItemNamed(table, i)
  BY <1>7, <1>11 DEF Meanings
<1> HIDE DEF h
<1>17. Part(h, kept)
  BY <1>4, <1>7, <1>16 DEF Part
<1>18. Writes(Text(w2, "/", i.name), h, kept)
  BY <1>5, <1>8, <1>9, <1>14, <1>16, <1>17, TextWritten
<1> QED
  BY <1>7, <1>15, <1>16, <1>18 DEF w2

LEMMA OtherLast ==
    ASSUME NEW last \in [NumberTags -> Int], NEW r, NEW d \in Int
    PROVE  /\ [last EXCEPT ![r] = d] \in [NumberTags -> Int]
           /\ \A t \in NumberTags : t # r => [last EXCEPT ![r] = d][t] = last[t]
OBVIOUS

LEMMA ReferenceWritten ==
    ASSUME HeadersStay, ServerSound, NEW w, NEW g, NEW kept, Writes(w, g, kept), FilesKnown(g),
           kept.refs = {s \in RefsIn(table, refs) : s.item.visibility = "global"},
           NEW r \in refs, r.item.visibility = "global", g.item = ItemNamed(table, r.item)
    PROVE  \E h \in Meanings :
             /\ Writes(WriteReference(w, r), h, kept)
             /\ h.named = g.named /\ h.know = g.know /\ h.item = g.item
             /\ h.refs = g.refs \cup {ByName(table, r)}
<1> DEFINE g1 == LastNow(g, "u", r.usage)
           g2 == LastNow(g1, "f", r.file)
           g3 == LastNow(g2, "l", r.line)
           w1 == OptionalCompact(w, "u", r.usage)
           w2 == OptionalCompact(w1, "f", r.file)
           w3 == OptionalCompact(w2, "l", r.line)
           rec == Record("r", 0)
           more == g3.refs \cup {ReferenceMeant(g3)}
           h == [g3 EXCEPT !.refs = more]
<1>1. /\ "u" \in NumberKeys /\ "f" \in NumberKeys /\ "l" \in NumberKeys
      /\ "u" \in NumberTags /\ "f" \in NumberTags /\ "r" \notin NumberKeys
  BY DEF NumberKeys, NumberTags, KeyList
<1>2. r \in RefsOf(table) /\ table[r.file] # Empty /\ r.file \notin deleted
  BY FilesAreWritten
<1>3. /\ r.usage \in Nat /\ r.file \in Nat /\ r.line \in Nat /\ r.file \in Slots
  BY <1>2, ByNameIs, ConstantsAre DEF Slots
<1>4. g \in Meanings /\ Part(g, kept)
  BY WritesFields
<1>5. Writes(w3, g3, kept)
  <2>1. Writes(w1, g1, kept)
    BY <1>1, <1>3, NumberWritten
  <2> HIDE DEF g1, w1
  <2>2. Writes(w2, g2, kept)
    BY <1>1, <1>3, <2>1, NumberWritten
  <2> HIDE DEF g2, w2
  <2> QED
    BY <1>1, <1>3, <2>2, NumberWritten
<1>6. /\ g1 \in Meanings /\ g1.last["u"] = r.usage
      /\ g1.named = g.named /\ g1.refs = g.refs /\ g1.know = g.know /\ g1.item = g.item
  <2>1. g1 \in Meanings
    BY <1>1, <1>3, <1>4, LastNowIs
  <2>2. g1.last["u"] = r.usage
    BY <1>1, <1>3, <1>4, LastNowLast
  <2> QED
    BY <1>1, <1>3, <1>4, <2>1, <2>2, LastNowKeeps
<1>7. /\ g2 \in Meanings /\ g2.last["f"] = r.file /\ g2.last["u"] = r.usage
      /\ g2.named = g.named /\ g2.refs = g.refs /\ g2.know = g.know /\ g2.item = g.item
  <2> HIDE DEF g1
  <2>1. g2 \in Meanings
    BY <1>1, <1>3, <1>6, LastNowIs
  <2>2. g2.last["f"] = r.file
    BY <1>1, <1>3, <1>6, LastNowLast
  <2>3. g2.last["u"] = g1.last["u"]
    BY <1>1, <1>3, <1>6, LastNowLast
  <2>4. g2.named = g1.named /\ g2.refs = g1.refs /\ g2.know = g1.know /\ g2.item = g1.item
    BY <1>1, <1>3, <1>6, LastNowKeeps
  <2> HIDE DEF g2
  <2> QED
    BY <1>6, <2>1, <2>2, <2>3, <2>4
<1>8. /\ g3 \in Meanings /\ g3.last["l"] = r.line /\ g3.last["f"] = r.file /\ g3.last["u"] = r.usage
      /\ g3.named = g.named /\ g3.refs = g.refs /\ g3.know = g.know /\ g3.item = g.item
  <2> HIDE DEF g2
  <2>1. g3 \in Meanings
    BY <1>1, <1>3, <1>7, LastNowIs
  <2>2. g3.last["l"] = r.line
    BY <1>1, <1>3, <1>7, LastNowLast
  <2>3. g3.last["u"] = g2.last["u"] /\ g3.last["f"] = g2.last["f"]
    BY <1>1, <1>3, <1>7, LastNowLast
  <2>4. g3.named = g2.named /\ g3.refs = g2.refs /\ g3.know = g2.know /\ g3.item = g2.item
    BY <1>1, <1>3, <1>7, LastNowKeeps
  <2> HIDE DEF g3
  <2> QED
    BY <1>7, <2>1, <2>2, <2>3, <2>4
<1> HIDE DEF g3, w3
<1>9. rec.tag = "r" /\ rec \in Records
  BY DEF Record, Records, NumberTags, KeyList
<1> HIDE DEF rec
<1>10. g3.named[r.file] = table[r.file]
  BY <1>2, <1>3, <1>8 DEF FilesKnown
<1>11. ReferenceMeant(g3) = ByName(table, r)
  <2>1. ByName(table, r) = [item |-> ItemNamed(table, r.item), file |-> table[r.file], line |-> r.line, usage |-> r.usage]
    BY <1>2, ByNameIs
  <2> QED
    BY <1>8, <1>10, <2>1 DEF ReferenceMeant
<1>12. ByName(table, r) \in NamedRefs
  BY <1>2, RefNamedIn
<1>13. ByName(table, r) \in kept.refs
  <2>1. ByName(table, r).item.visibility = "global"
    <3>1. ByName(table, r).item = ItemNamed(table, r.item) /\ r.item \in ItemsOf(table)
      BY <1>2, ByNameIs
    <3>2. ItemNamed(table, r.item).visibility = r.item.visibility
      BY <3>1, ItemNamedIs
    <3> QED
      BY <3>1, <3>2
  <2>2. ByName(table, r) \in RefsIn(table, refs)
    BY DEF RefsIn
  <2> QED
    BY <2>1, <2>2
<1>14. \A q \in g3.refs : Place(q) = Place(ReferenceMeant(g3)) => q = ReferenceMeant(g3)
  <2> TAKE q \in g3.refs
  <2>1. q \in RefsIn(table, refs)
    BY <1>4, <1>8 DEF Part
  <2>2. PICK s \in refs : q = ByName(table, s)
    BY <2>1 DEF RefsIn
  <2>3. s \in RefsOf(table)
    BY FilesAreWritten
  <2>4. (Place(s) = Place(r)) <=> (Place(ByName(table, s)) = Place(ByName(table, r)))
    BY <1>2, <2>3, SamePlaces DEF ServerSound
  <2>5. Place(s) = Place(r) => s = r
    BY DEF ServerSound, Sound
  <2> QED
    BY <1>11, <2>2, <2>4, <2>5
<1>15. more = g.refs \cup {ByName(table, r)}
  BY <1>8, <1>11
<1>16. MeansReference(g3, rec, h)
  <2>1. rec.tag = "r" /\ g3.last["f"] \in Slots /\ ReferenceMeant(g3) \in NamedRefs
    BY <1>3, <1>8, <1>9, <1>11, <1>12
  <2> QED
    BY <1>14, <2>1 DEF MeansReference
<1>17. Means(g3, rec, h)
  BY <1>16 DEF Means
<1>18. h \in Meanings
  BY <1>8, <1>17, MeansTyped
<1> HIDE DEF more
<1>19. h.named = g3.named /\ h.know = g3.know /\ h.refs = more /\ h.last = g3.last /\ h.item = g3.item
  BY <1>8 DEF Meanings
<1> HIDE DEF h
<1>20. Part(h, kept)
  BY <1>4, <1>8, <1>13, <1>15, <1>19 DEF Part
<1> DEFINE v == WriteReference(w, r)
           last == [w3.last EXCEPT !["r"] = 0]
<1>21. v = [out |-> Append(w3.out, rec), last |-> last]
  BY DEF WriteReference, Compact, rec, w3, w2, w1
<1>22. /\ w3.last \in [NumberTags -> Int] /\ \A t \in NumberKeys : w3.last[t] \in {-1, g3.last[t]}
       /\ Tells(w3.out, g3, kept)
  BY <1>5, WritesFields
<1>23. Tells(Append(w3.out, rec), h, kept)
  BY <1>8, <1>9, <1>17, <1>20, <1>22, TellsMore
<1>24. last \in [NumberTags -> Int] /\ \A t \in NumberKeys : last[t] \in {-1, h.last[t]}
  <2>1. last \in [NumberTags -> Int] /\ \A t \in NumberTags : t # "r" => last[t] = w3.last[t]
    <3>1. w3.last \in [NumberTags -> Int] /\ 0 \in Int
      BY <1>22
    <3> QED
      BY <3>1, OtherLast
  <2>2. \A t \in NumberKeys : t \in NumberTags /\ t # "r"
    BY <1>1 DEF NumberKeys
  <2> HIDE DEF last
  <2> QED
    BY <1>19, <1>22, <2>1, <2>2
<1>25. v.out = Append(w3.out, rec) /\ v.last = last /\ v = [out |-> v.out, last |-> v.last]
  BY <1>21
<1> HIDE DEF v, last
<1>26. Writes(v, h, kept)
  BY <1>18, <1>23, <1>24, <1>25 DEF Writes
<1> QED
  BY <1>8, <1>15, <1>18, <1>19, <1>26 DEF v

LEMMA Inductive ==
    ASSUME NEW S, 0 \in S, \A k \in Nat : k \in S => k + 1 \in S
    PROVE  \A k \in Nat : k \in S
<1> DEFINE Bad == {k \in Nat : k \notin S}
<1>1. CASE Bad = {}
  BY <1>1
<1>2. CASE Bad # {}
  <2>1. PICK k \in Bad : \A j \in Bad : k <= j
    BY <1>2, LeastExists
  <2>2. k \in Nat /\ k # 0 /\ k \notin S
    BY <2>1
  <2>3. k - 1 \in Nat /\ ~(k <= k - 1) /\ (k - 1) + 1 = k
    BY <2>2
  <2>4. k - 1 \in S
    BY <2>1, <2>3
  <2>5. (k - 1) + 1 \in S
    BY <2>3, <2>4
  <2> QED
    BY <2>2, <2>3, <2>5
<1> QED
  BY <1>1, <1>2

LEMMA FilesChain ==
    ASSUME NEW w, NEW files, Len(files) \in Nat
    PROVE  \E f : /\ f[0] = w /\ f[Len(files)] = WriteFiles(w, files)
                  /\ \A i \in 1..Len(files) : f[i] = WriteFile(f[i - 1], files[i])
<1> DEFINE Is(g, k) == g = [i \in 0..k |-> IF i = 0 THEN w ELSE WriteFile(g[i - 1], files[i])]
           Has == {k \in Nat : \E g : Is(g, k)}
<1>1. \A k \in Nat : k \in Has
  <2>1. 0 \in Has
    <3> DEFINE g == [i \in 0..0 |-> w]
    <3>1. Is(g, 0)
      OBVIOUS
    <3> QED
      BY <3>1
  <2>2. ASSUME NEW k \in Nat, k \in Has
        PROVE  k + 1 \in Has
    <3>1. PICK g : Is(g, k)
      BY <2>2
    <3> DEFINE h == [i \in 0..(k + 1) |-> IF i = k + 1 THEN WriteFile(g[k], files[(k + 1)]) ELSE g[i]]
    <3>2. \A i \in 0..k : h[i] = g[i] /\ g[i] = IF i = 0 THEN w ELSE WriteFile(g[i - 1], files[i])
      BY <3>1
    <3>3. h[k + 1] = WriteFile(g[k], files[(k + 1)]) /\ h[k] = g[k]
      OBVIOUS
    <3>4. ASSUME NEW i \in 0..(k + 1)
          PROVE  h[i] = IF i = 0 THEN w ELSE WriteFile(h[i - 1], files[i])
      <4> HIDE DEF h
      <4>1. CASE i = k + 1
        <5>1. i # 0 /\ i - 1 = k
          BY <4>1
        <5> QED
          BY <3>3, <4>1, <5>1
      <4>2. CASE i # k + 1
        <5>1. i \in 0..k /\ (i # 0 => i - 1 \in 0..k)
          BY <4>2
        <5> QED
          BY <3>2, <5>1
      <4> QED
        BY <4>1, <4>2
    <3>5. h = [i \in 0..(k + 1) |-> h[i]]
      OBVIOUS
    <3> HIDE DEF h
    <3>6. Is(h, k + 1)
      BY <3>4, <3>5
    <3>7. k + 1 \in Nat
      OBVIOUS
    <3> QED
      BY <3>6, <3>7
  <2> HIDE DEF Has
  <2> QED
    BY <2>1, <2>2, Inductive
<1> DEFINE n == Len(files)
           upTo[i \in 0..n] == IF i = 0 THEN w ELSE WriteFile(upTo[i - 1], files[i])
<1>2. n \in Nat
  OBVIOUS
<1>3. WriteFiles(w, files) = upTo[n]
  BY DEF WriteFiles
<1> HIDE DEF n
<1>4. \E g : Is(g, n)
  BY <1>1, <1>2
<1>5. Is(upTo, n)
  BY <1>4
<1> HIDE DEF upTo
<1>6. \A i \in 0..n : upTo[i] = IF i = 0 THEN w ELSE WriteFile(upTo[i - 1], files[i])
  BY <1>5
<1>7. upTo[0] = w /\ \A i \in 1..n : upTo[i] = WriteFile(upTo[i - 1], files[i])
  BY <1>2, <1>6
<1> QED
  BY <1>3, <1>7 DEF n

LEMMA ReferencesChain ==
    ASSUME NEW w, NEW list, Len(list) \in Nat
    PROVE  \E f : /\ f[0] = w /\ f[Len(list)] = WriteReferences(w, list)
                  /\ \A i \in 1..Len(list) : f[i] = WriteReference(f[i - 1], list[i])
<1> DEFINE Is(g, k) == g = [i \in 0..k |-> IF i = 0 THEN w ELSE WriteReference(g[i - 1], list[i])]
           Has == {k \in Nat : \E g : Is(g, k)}
<1>1. \A k \in Nat : k \in Has
  <2>1. 0 \in Has
    <3> DEFINE g == [i \in 0..0 |-> w]
    <3>1. Is(g, 0)
      OBVIOUS
    <3> QED
      BY <3>1
  <2>2. ASSUME NEW k \in Nat, k \in Has
        PROVE  k + 1 \in Has
    <3>1. PICK g : Is(g, k)
      BY <2>2
    <3> DEFINE h == [i \in 0..(k + 1) |-> IF i = k + 1 THEN WriteReference(g[k], list[(k + 1)]) ELSE g[i]]
    <3>2. \A i \in 0..k : h[i] = g[i] /\ g[i] = IF i = 0 THEN w ELSE WriteReference(g[i - 1], list[i])
      BY <3>1
    <3>3. h[k + 1] = WriteReference(g[k], list[(k + 1)]) /\ h[k] = g[k]
      OBVIOUS
    <3>4. ASSUME NEW i \in 0..(k + 1)
          PROVE  h[i] = IF i = 0 THEN w ELSE WriteReference(h[i - 1], list[i])
      <4> HIDE DEF h
      <4>1. CASE i = k + 1
        <5>1. i # 0 /\ i - 1 = k
          BY <4>1
        <5> QED
          BY <3>3, <4>1, <5>1
      <4>2. CASE i # k + 1
        <5>1. i \in 0..k /\ (i # 0 => i - 1 \in 0..k)
          BY <4>2
        <5> QED
          BY <3>2, <5>1
      <4> QED
        BY <4>1, <4>2
    <3>5. h = [i \in 0..(k + 1) |-> h[i]]
      OBVIOUS
    <3> HIDE DEF h
    <3>6. Is(h, k + 1)
      BY <3>4, <3>5
    <3>7. k + 1 \in Nat
      OBVIOUS
    <3> QED
      BY <3>6, <3>7
  <2> HIDE DEF Has
  <2> QED
    BY <2>1, <2>2, Inductive
<1> DEFINE n == Len(list)
           upTo[i \in 0..n] == IF i = 0 THEN w ELSE WriteReference(upTo[i - 1], list[i])
<1>2. n \in Nat
  OBVIOUS
<1>3. WriteReferences(w, list) = upTo[n]
  BY DEF WriteReferences
<1> HIDE DEF n
<1>4. \E g : Is(g, n)
  BY <1>1, <1>2
<1>5. Is(upTo, n)
  BY <1>4
<1> HIDE DEF upTo
<1>6. \A i \in 0..n : upTo[i] = IF i = 0 THEN w ELSE WriteReference(upTo[i - 1], list[i])
  BY <1>5
<1>7. upTo[0] = w /\ \A i \in 1..n : upTo[i] = WriteReference(upTo[i - 1], list[i])
  BY <1>2, <1>6
<1> QED
  BY <1>3, <1>7 DEF n

LEMMA ItemsChain ==
    ASSUME NEW w, NEW items, NEW lists, Len(items) \in Nat
    PROVE  \E f : /\ f[0] = w /\ f[Len(items)] = WriteItems(w, items, lists)
                  /\ \A i \in 1..Len(items) : f[i] = WriteItem(f[i - 1], items[i], lists[items[i]])
<1> DEFINE Is(g, k) == g = [i \in 0..k |-> IF i = 0 THEN w ELSE WriteItem(g[i - 1], items[i], lists[items[i]])]
           Has == {k \in Nat : \E g : Is(g, k)}
<1>1. \A k \in Nat : k \in Has
  <2>1. 0 \in Has
    <3> DEFINE g == [i \in 0..0 |-> w]
    <3>1. Is(g, 0)
      OBVIOUS
    <3> QED
      BY <3>1
  <2>2. ASSUME NEW k \in Nat, k \in Has
        PROVE  k + 1 \in Has
    <3>1. PICK g : Is(g, k)
      BY <2>2
    <3> DEFINE h == [i \in 0..(k + 1) |-> IF i = k + 1 THEN WriteItem(g[k], items[(k + 1)], lists[items[(k + 1)]]) ELSE g[i]]
    <3>2. \A i \in 0..k : h[i] = g[i] /\ g[i] = IF i = 0 THEN w ELSE WriteItem(g[i - 1], items[i], lists[items[i]])
      BY <3>1
    <3>3. h[k + 1] = WriteItem(g[k], items[(k + 1)], lists[items[(k + 1)]]) /\ h[k] = g[k]
      OBVIOUS
    <3>4. ASSUME NEW i \in 0..(k + 1)
          PROVE  h[i] = IF i = 0 THEN w ELSE WriteItem(h[i - 1], items[i], lists[items[i]])
      <4> HIDE DEF h
      <4>1. CASE i = k + 1
        <5>1. i # 0 /\ i - 1 = k
          BY <4>1
        <5> QED
          BY <3>3, <4>1, <5>1
      <4>2. CASE i # k + 1
        <5>1. i \in 0..k /\ (i # 0 => i - 1 \in 0..k)
          BY <4>2
        <5> QED
          BY <3>2, <5>1
      <4> QED
        BY <4>1, <4>2
    <3>5. h = [i \in 0..(k + 1) |-> h[i]]
      OBVIOUS
    <3> HIDE DEF h
    <3>6. Is(h, k + 1)
      BY <3>4, <3>5
    <3>7. k + 1 \in Nat
      OBVIOUS
    <3> QED
      BY <3>6, <3>7
  <2> HIDE DEF Has
  <2> QED
    BY <2>1, <2>2, Inductive
<1> DEFINE n == Len(items)
           upTo[i \in 0..n] == IF i = 0 THEN w ELSE WriteItem(upTo[i - 1], items[i], lists[items[i]])
<1>2. n \in Nat
  OBVIOUS
<1>3. WriteItems(w, items, lists) = upTo[n]
  BY DEF WriteItems
<1> HIDE DEF n
<1>4. \E g : Is(g, n)
  BY <1>1, <1>2
<1>5. Is(upTo, n)
  BY <1>4
<1> HIDE DEF upTo
<1>6. \A i \in 0..n : upTo[i] = IF i = 0 THEN w ELSE WriteItem(upTo[i - 1], items[i], lists[items[i]])
  BY <1>5
<1>7. upTo[0] = w /\ \A i \in 1..n : upTo[i] = WriteItem(upTo[i - 1], items[i], lists[items[i]])
  BY <1>2, <1>6
<1> QED
  BY <1>3, <1>7 DEF n

LEMMA SavedKnow ==
    ASSUME NEW whole, NEW f \in Names
    PROVE  Saved(whole).know[f] = IF f \in GoneIn(table, deleted) THEN 0 ELSE KnowIn(table, know)[f]
<1>1. Saved(whole).know = [e \in Names |-> IF e \in GoneIn(table, deleted) THEN 0 ELSE KnowIn(table, know)[e]]
  BY SavedIs
<1> HIDE DEF Saved
<1> QED
  BY <1>1

LEMMA OrderIs ==
    ASSUME NEW S, IsFiniteSet(S), NEW s \in SetToSeqs(S)
    PROVE  /\ Len(s) \in Nat /\ \A i \in 1..Len(s) : s[i] \in S
           /\ \A x \in S : \E i \in 1..Len(s) : s[i] = x
<1> DEFINE c == Cardinality(S)
<1>1. c \in Nat
  BY FS_CardinalityType
<1>2. s \in [1..c -> S] /\ \A i, j \in 1..c : i # j => s[i] # s[j]
  BY DEF SetToSeqs
<1>3. s \in Injection(1..c, S)
  BY <1>2 DEF Injection, IsInjective
<1>4. IsFiniteSet(1..c) /\ Cardinality(1..c) = c
  BY <1>1, FS_Interval
<1> HIDE DEF c
<1>5. s \in Surjection(1..c, S)
  BY <1>3, <1>4, FS_Injection DEF c
<1>6. \A x \in S : \E i \in 1..c : s[i] = x
  BY <1>5 DEF Surjection
<1>7. Len(s) = c
  BY <1>1, <1>2
<1> QED
  BY <1>1, <1>2, <1>6, <1>7

LEMMA FileRightlyWritten ==
    ASSUME ServerSound, NEW w, NEW g, NEW kept, Writes(w, g, kept), kept.know = Saved(TRUE).know,
           NEW n \in Slots, table[n] # Empty, n \notin deleted
    PROVE  \E h \in Meanings : Writes(WriteFile(w, n), h, kept) /\ FileMeant(g, kept, n, h)
<1>1. /\ table[n] \in Named /\ know[n] \in Times
      /\ table[n] = NoFileName => know[n] = 0
      /\ \A m \in Slots : table[m] = table[n] => m = n
      /\ deleted \subseteq Slots
  BY ConstantsAre DEF ServerSound, Sound, Table, Named
<1>2. ASSUME table[n] \in Names
      PROVE  kept.know[table[n]] = know[n]
  <2>1. KnowIn(table, know)[table[n]] = know[n]
    BY <1>2, KnowIs DEF ServerSound
  <2>2. table[n] \notin GoneIn(table, deleted)
    BY <1>1 DEF GoneIn
  <2>3. Saved(TRUE).know[table[n]] = know[n]
    BY <1>2, <2>1, <2>2, SavedKnow
  <2> QED
    BY <2>3
<1>3. Part(g, kept)
  BY WritesFields
<1>4. table[n] \in Names => kept.know[table[n]] = know[n] /\ g.know[table[n]] \in {0, know[n]}
  BY <1>2, <1>3 DEF Part
<1>5. /\ table[n] \in Named /\ know[n] \in Times
      /\ table[n] = NoFileName => know[n] = 0
  BY <1>1
<1> QED
  BY <1>4, <1>5, FileWritten

LEMMA FilesWritten ==
    ASSUME ServerSound, NEW kept, kept.know = Saved(TRUE).know, NEW files \in FilesInOrder
    PROVE  \E h \in Meanings :
             /\ Writes(WriteFiles(FileHead, files), h, kept) /\ FilesKnown(h) /\ h.refs = {}
             /\ \A f \in Names : h.know[f] = kept.know[f]
<1> DEFINE S == {n \in Slots : table[n] # Empty /\ n \notin deleted}
           n == Len(files)
<1>1. IsFiniteSet(S)
  BY SlotsFinite, FS_Subset
<1>2. files \in SetToSeqs(S)
  BY DEF FilesInOrder
<1> HIDE DEF S
<1>3. n \in Nat /\ (\A i \in 1..n : files[i] \in S) /\ \A x \in S : \E i \in 1..n : files[i] = x
  BY <1>1, <1>2, OrderIs
<1>4. PICK u : /\ u[0] = FileHead /\ u[n] = WriteFiles(FileHead, files)
               /\ \A i \in 1..n : u[i] = WriteFile(u[i - 1], files[i])
  BY <1>3, FilesChain
<1> HIDE DEF n
<1> DEFINE Done(k, h) ==
             /\ Writes(u[k], h, kept) /\ h.refs = {} /\ h \in Meanings
             /\ \A i \in 1..k : h.named[files[i]] = table[files[i]]
             /\ \A f \in Names : h.know[f] = IF \E i \in 1..k : table[files[i]] = f THEN kept.know[f] ELSE 0
           Good == {k \in Nat : k <= n => \E h : Done(k, h)}
<1>5. 0 \in Good
  <2>1. Writes(u[0], AtFirst, kept)
    BY <1>4, HeadWritten
  <2>2. AtFirst.refs = {} /\ \A f \in Names : AtFirst.know[f] = 0
    BY DEF AtFirst, Named
  <2>3. Done(0, AtFirst)
    BY <2>1, <2>2, AtFirstIs
  <2> QED
    BY <2>3
<1>6. ASSUME NEW k \in Nat, k \in Good, k + 1 <= n
      PROVE  \E h : Done(k + 1, h)
  <2>1. k <= n /\ k + 1 \in 1..n /\ (k + 1) - 1 = k
    BY <1>3, <1>6
  <2>2. PICK g : Done(k, g)
    BY <1>6, <2>1
  <2> DEFINE m == files[k + 1]
  <2>3. m \in Slots /\ table[m] # Empty /\ m \notin deleted
    BY <1>3, <2>1 DEF S
  <2>4. u[k + 1] = WriteFile(u[k], m)
    BY <1>4, <2>1
  <2>5. g \in Meanings /\ g.named \in [Slots -> Named \cup {Empty}]
    BY <2>2 DEF Meanings
  <2> HIDE DEF m
  <2>11. PICK h \in Meanings : Writes(WriteFile(u[k], m), h, kept) /\ FileMeant(g, kept, m, h)
    BY <2>2, <2>3, FileRightlyWritten
  <2>6. /\ Writes(WriteFile(u[k], m), h, kept)
        /\ h.named = [g.named EXCEPT ![m] = table[m]] /\ h.refs = g.refs
        /\ \A f \in Names : h.know[f] = IF f = table[m] THEN kept.know[f] ELSE g.know[f]
    BY <2>11 DEF FileMeant
  <2>7. \A i \in 1..(k + 1) : i \in 1..k \/ i = k + 1
    OBVIOUS
  <2>8. \A i \in 1..(k + 1) : h.named[files[i]] = table[files[i]]
    <3> TAKE i \in 1..(k + 1)
    <3>1. files[i] \in Slots
      BY <1>3, <2>1 DEF S
    <3>2. h.named[files[i]] = IF files[i] = m THEN table[m] ELSE g.named[files[i]]
      BY <2>5, <2>6, <3>1
    <3>3. files[i] = m \/ g.named[files[i]] = table[files[i]]
      BY <2>2, <2>7 DEF m
    <3> QED
      BY <3>2, <3>3
  <2>9. \A f \in Names : h.know[f] = IF \E i \in 1..(k + 1) : table[files[i]] = f THEN kept.know[f] ELSE 0
    <3> TAKE f \in Names
    <3>1. (\E i \in 1..(k + 1) : table[files[i]] = f) <=> (f = table[m] \/ \E i \in 1..k : table[files[i]] = f)
      BY <2>7 DEF m
    <3> QED
      BY <2>2, <2>6, <3>1
  <2>10. Done(k + 1, h)
    BY <2>2, <2>4, <2>6, <2>8, <2>9
  <2> QED
    BY <2>10
<1>7. \A k \in Nat : k \in Good
  <2>1. \A k \in Nat : k \in Good => k + 1 \in Good
    <3> SUFFICES ASSUME NEW k \in Nat, k \in Good PROVE k + 1 \in Good
      OBVIOUS
    <3>1. k + 1 <= n => \E h : Done(k + 1, h)
      BY <1>6
    <3> HIDE DEF Done
    <3> QED
      BY <3>1
  <2> HIDE DEF Good
  <2> QED
    BY <1>5, <2>1, Inductive
<1>8. PICK h : Done(n, h)
  <2>1. n \in Good /\ n <= n
    <3> HIDE DEF Good
    <3> QED
      BY <1>3, <1>7
  <2> HIDE DEF Done
  <2> QED
    BY <2>1
<1>9. FilesKnown(h)
  <2>1. \A m \in S : h.named[m] = table[m]
    BY <1>3, <1>8
  <2> QED
    BY <2>1 DEF FilesKnown, S
<1>10. ASSUME NEW f \in Names PROVE h.know[f] = kept.know[f]
  <2>1. CASE \E i \in 1..n : table[files[i]] = f
    BY <1>8, <2>1
  <2>2. CASE ~\E i \in 1..n : table[files[i]] = f
    <3>1. \A m \in Slots : table[m] = f => m \in deleted
      <4> TAKE m \in Slots
      <4>1. f # Empty
        BY ConstantsAre DEF Named
      <4> QED
        BY <1>3, <2>2, <4>1 DEF S
    <3>2. f \in GoneIn(table, deleted) \/ KnowIn(table, know)[f] = 0
      <4>1. CASE \E m \in Slots : table[m] = f
        BY <3>1, <4>1 DEF GoneIn
      <4>2. CASE \A m \in Slots : table[m] # f
        BY <4>2, KnowIs DEF ServerSound
      <4> QED
        BY <4>1, <4>2
    <3>3. Saved(TRUE).know[f] = 0
      BY <3>2, SavedKnow
    <3> QED
      BY <1>8, <2>2, <3>3
  <2> QED
    BY <2>1, <2>2
<1> QED
  BY ZenonT(60), <1>4, <1>8, <1>9, <1>10

RefsAt(i) == {ByName(table, r) : r \in {q \in refs : q.item = i}}

LEMMA ReferencesWritten ==
    ASSUME HeadersStay, ServerSound, NEW w, NEW g, NEW kept, Writes(w, g, kept), FilesKnown(g),
           kept.refs = {s \in RefsIn(table, refs) : s.item.visibility = "global"},
           NEW i \in ItemsOf(table), i.visibility = "global", g.item = ItemNamed(table, i), NEW list \in ListsOf(i)
    PROVE  \E h \in Meanings :
             /\ Writes(WriteReferences(w, list), h, kept) /\ h.named = g.named /\ h.know = g.know
             /\ h.refs = g.refs \cup RefsAt(i)
<1> DEFINE S == {r \in refs : r.item = i}
           n == Len(list)
<1>1. IsFiniteSet(S)
  BY FS_Subset DEF ServerSound, Sound
<1>2. list \in SetToSeqs(S)
  BY DEF ListsOf
<1> HIDE DEF S
<1>3. n \in Nat /\ (\A j \in 1..n : list[j] \in S) /\ \A x \in S : \E j \in 1..n : list[j] = x
  BY <1>1, <1>2, OrderIs
<1>4. PICK u : /\ u[0] = w /\ u[n] = WriteReferences(w, list)
               /\ \A j \in 1..n : u[j] = WriteReference(u[j - 1], list[j])
  BY <1>3, ReferencesChain
<1>5. g \in Meanings
  BY WritesFields
<1> HIDE DEF n
<1> DEFINE First(k) == {ByName(table, list[j]) : j \in 1..k}
           Done(k, h) ==
             /\ Writes(u[k], h, kept) /\ h \in Meanings
             /\ h.named = g.named /\ h.know = g.know /\ h.item = g.item /\ h.refs = g.refs \cup First(k)
           Good == {k \in Nat : k <= n => \E h : Done(k, h)}
<1>6. 0 \in Good
  <2>1. First(0) = {}
    OBVIOUS
  <2> HIDE DEF First
  <2>2. Done(0, g)
    BY <1>4, <1>5, <2>1
  <2> QED
    BY <2>2
<1>7. ASSUME NEW k \in Nat, k \in Good, k + 1 <= n
      PROVE  \E h : Done(k + 1, h)
  <2>1. k <= n /\ k + 1 \in 1..n /\ (k + 1) - 1 = k
    BY <1>3, <1>7
  <2>2. PICK o : Done(k, o)
    BY <1>7, <2>1
  <2> DEFINE r == list[k + 1]
  <2>3. r \in refs /\ r.item = i
    BY <1>3, <2>1 DEF S
  <2>4. u[k + 1] = WriteReference(u[k], r)
    BY <1>4, <2>1
  <2>5. First(k + 1) = First(k) \cup {ByName(table, r)}
    <3>1. \A j : j \in 1..(k + 1) <=> j \in 1..k \/ j = k + 1
      OBVIOUS
    <3> QED
      BY <3>1
  <2> HIDE DEF r, First
  <2>6. FilesKnown(o) /\ o.item = ItemNamed(table, r.item) /\ r.item.visibility = "global" /\ Writes(u[k], o, kept)
    BY <2>2, <2>3 DEF FilesKnown
  <2>7. PICK h \in Meanings :
          /\ Writes(WriteReference(u[k], r), h, kept)
          /\ h.named = o.named /\ h.know = o.know /\ h.item = o.item
          /\ h.refs = o.refs \cup {ByName(table, r)}
    BY <2>3, <2>6, ReferenceWritten
  <2>8. Done(k + 1, h)
    BY <2>2, <2>4, <2>5, <2>7
  <2> QED
    BY <2>8
<1>8. \A k \in Nat : k \in Good
  <2>1. \A k \in Nat : k \in Good => k + 1 \in Good
    <3> SUFFICES ASSUME NEW k \in Nat, k \in Good PROVE k + 1 \in Good
      OBVIOUS
    <3>1. k + 1 <= n => \E h : Done(k + 1, h)
      BY <1>7
    <3> HIDE DEF Done
    <3> QED
      BY <3>1
  <2> HIDE DEF Good
  <2> QED
    BY <1>6, <2>1, Inductive
<1>9. PICK h : Done(n, h)
  <2>1. n \in Good /\ n <= n
    <3> HIDE DEF Good
    <3> QED
      BY <1>3, <1>8
  <2> HIDE DEF Done
  <2> QED
    BY <2>1
<1>10. First(n) = RefsAt(i)
  <2>1. \A x : x \in First(n) => x \in RefsAt(i)
    BY <1>3 DEF RefsAt, S
  <2>2. \A x : x \in RefsAt(i) => x \in First(n)
    BY <1>3 DEF RefsAt, S
  <2> QED
    BY <2>1, <2>2
<1> QED
  BY <1>4, <1>9, <1>10

LEMMA ItemWritten ==
    ASSUME HeadersStay, ServerSound, NEW w, NEW g, NEW kept, Writes(w, g, kept), FilesKnown(g),
           kept.refs = {s \in RefsIn(table, refs) : s.item.visibility = "global"},
           NEW i \in ItemsOf(table), i.visibility = "global", NEW list \in ListsOf(i)
    PROVE  \E h \in Meanings :
             /\ Writes(WriteItem(w, i, list), h, kept) /\ h.named = g.named /\ h.know = g.know
             /\ h.refs = g.refs \cup RefsAt(i)
<1> DEFINE v == Text(OptionalCompact(OptionalCompact(w, "t", i.type), "d", i.include), "/", i.name)
<1>1. PICK o \in Meanings :
        /\ Writes(v, o, kept)
        /\ o.named = g.named /\ o.refs = g.refs /\ o.know = g.know /\ o.item = ItemNamed(table, i)
  BY HeadOfItemWritten
<1>2. FilesKnown(o)
  BY <1>1 DEF FilesKnown
<1>3. WriteItem(w, i, list) = WriteReferences(v, list)
  BY DEF WriteItem
<1> HIDE DEF v
<1>4. PICK h \in Meanings :
        /\ Writes(WriteReferences(v, list), h, kept) /\ h.named = o.named /\ h.know = o.know
        /\ h.refs = o.refs \cup RefsAt(i)
  BY <1>1, <1>2, ReferencesWritten
<1> QED
  BY <1>1, <1>3, <1>4

LEMMA ItemsWritten ==
    ASSUME HeadersStay, ServerSound, NEW w, NEW g, NEW kept, Writes(w, g, kept), FilesKnown(g),
           kept.refs = {s \in RefsIn(table, refs) : s.item.visibility = "global"}, g.refs = {},
           NEW items \in SetToSeqs(WrittenItems), NEW lists, \A i \in WrittenItems : lists[i] \in ListsOf(i)
    PROVE  \E h \in Meanings :
             /\ Writes(WriteItems(w, items, lists), h, kept) /\ h.know = g.know /\ h.refs = kept.refs
<1> DEFINE n == Len(items)
<1>1. IsFiniteSet(WrittenItems)
  <2> DEFINE Q == {q \in refs : q.item.visibility # "local"}
             f == [q \in Q |-> q.item]
  <2>1. IsFiniteSet(Q)
    BY FS_Subset DEF ServerSound, Sound
  <2>2. WrittenItems = {q.item : q \in Q}
    BY DEF WrittenItems
  <2>3. \A x \in WrittenItems : \E q \in Q : q.item = x
    BY <2>2
  <2>4. \A q \in Q : q.item \in WrittenItems
    BY <2>2
  <2> HIDE DEF Q
  <2>5. f \in Surjection(Q, WrittenItems)
    BY <2>3, <2>4 DEF Surjection
  <2> HIDE DEF f
  <2> QED
    BY <2>1, <2>5, FS_Surjection
<1>2. n \in Nat /\ (\A j \in 1..n : items[j] \in WrittenItems) /\ \A x \in WrittenItems : \E j \in 1..n : items[j] = x
  BY <1>1, OrderIs
<1>3. PICK u : /\ u[0] = w /\ u[n] = WriteItems(w, items, lists)
               /\ \A j \in 1..n : u[j] = WriteItem(u[j - 1], items[j], lists[items[j]])
  BY <1>2, ItemsChain
<1>4. g \in Meanings
  BY WritesFields
<1>5. \A i \in WrittenItems : i \in ItemsOf(table) /\ i.visibility = "global"
  <2>1. \A r \in refs : r.item \in ItemsOf(table)
    BY FilesAreWritten, ByNameIs
  <2>2. \A i \in ItemsOf(table) : i.visibility \in {"global", "local"}
    BY DEF ItemsOf
  <2> QED
    BY <2>1, <2>2 DEF WrittenItems
<1> HIDE DEF n
<1> DEFINE First(k) == UNION {RefsAt(items[j]) : j \in 1..k}
           Done(k, h) ==
             /\ Writes(u[k], h, kept) /\ h \in Meanings
             /\ h.named = g.named /\ h.know = g.know /\ h.refs = First(k)
           Good == {k \in Nat : k <= n => \E h : Done(k, h)}
<1>6. 0 \in Good
  <2>1. First(0) = {}
    OBVIOUS
  <2> HIDE DEF First
  <2>2. Done(0, g)
    BY <1>3, <1>4, <2>1
  <2> QED
    BY <2>2
<1>7. ASSUME NEW k \in Nat, k \in Good, k + 1 <= n
      PROVE  \E h : Done(k + 1, h)
  <2>1. k <= n /\ k + 1 \in 1..n /\ (k + 1) - 1 = k
    BY <1>2, <1>7
  <2>2. PICK o : Done(k, o)
    BY <1>7, <2>1
  <2> DEFINE i == items[k + 1]
             list == lists[i]
  <2>3. i \in WrittenItems
    BY <1>2, <2>1
  <2>4. u[k + 1] = WriteItem(u[k], i, list)
    BY <1>3, <2>1
  <2>5. First(k + 1) = First(k) \cup RefsAt(i)
    <3>1. \A j : j \in 1..(k + 1) <=> j \in 1..k \/ j = k + 1
      OBVIOUS
    <3>2. {RefsAt(items[j]) : j \in 1..(k + 1)} = {RefsAt(items[j]) : j \in 1..k} \cup {RefsAt(i)}
      BY <3>1
    <3> QED
      BY <3>2
  <2>6. list \in ListsOf(i) /\ i \in ItemsOf(table) /\ i.visibility = "global"
    BY <1>5, <2>3
  <2> HIDE DEF i, list, First
  <2>7. FilesKnown(o) /\ Writes(u[k], o, kept)
    BY <2>2 DEF FilesKnown
  <2>8. PICK h \in Meanings :
          /\ Writes(WriteItem(u[k], i, list), h, kept)
          /\ h.named = o.named /\ h.know = o.know /\ h.refs = o.refs \cup RefsAt(i)
    BY <2>6, <2>7, ItemWritten
  <2>9. Done(k + 1, h)
    BY <2>2, <2>4, <2>5, <2>8
  <2> QED
    BY <2>9
<1>8. \A k \in Nat : k \in Good
  <2>1. \A k \in Nat : k \in Good => k + 1 \in Good
    <3> SUFFICES ASSUME NEW k \in Nat, k \in Good PROVE k + 1 \in Good
      OBVIOUS
    <3>1. k + 1 <= n => \E h : Done(k + 1, h)
      BY <1>7
    <3> HIDE DEF Done
    <3> QED
      BY <3>1
  <2> HIDE DEF Good
  <2> QED
    BY <1>6, <2>1, Inductive
<1>9. PICK h : Done(n, h)
  <2>1. n \in Good /\ n <= n
    <3> HIDE DEF Good
    <3> QED
      BY <1>2, <1>8
  <2> HIDE DEF Done
  <2> QED
    BY <2>1
<1>10. First(n) = kept.refs
  <2>1. \A r \in refs : ByName(table, r).item.visibility = r.item.visibility
    <3> TAKE r \in refs
    <3>1. r \in RefsOf(table)
      BY FilesAreWritten
    <3>2. ByName(table, r).item = ItemNamed(table, r.item) /\ r.item \in ItemsOf(table)
      BY <3>1, ByNameIs
    <3> QED
      BY <3>2, ItemNamedIs
  <2>2. ASSUME NEW x \in First(n) PROVE x \in kept.refs
    <3>1. PICK j \in 1..n : x \in RefsAt(items[j])
      OBVIOUS
    <3>2. PICK r \in refs : r.item = items[j] /\ x = ByName(table, r)
      BY <3>1 DEF RefsAt
    <3>3. x.item.visibility = "global"
      BY <1>2, <1>5, <2>1, <3>2
    <3> QED
      BY <3>2, <3>3 DEF RefsIn
  <2>3. ASSUME NEW x \in kept.refs PROVE x \in First(n)
    <3>1. PICK r \in refs : x = ByName(table, r) /\ x.item.visibility = "global"
      BY DEF RefsIn
    <3>2. r.item \in WrittenItems
      BY <2>1, <3>1 DEF WrittenItems
    <3>3. PICK j \in 1..n : items[j] = r.item
      BY <1>2, <3>2
    <3>4. x \in RefsAt(items[j])
      BY <3>1, <3>3 DEF RefsAt
    <3> QED
      BY <3>4
  <2> HIDE DEF First
  <2> QED
    BY <2>2, <2>3
<1> QED
  BY <1>3, <1>9, <1>10

\* The file of a whole save gives back all, and only, what is to be kept
LEMMA WrittenTells ==
    ASSUME HeadersStay, ServerSound, NEW whole, NEW records \in Written
    PROVE  \E h : /\ Tells(records, h, Saved(whole)) /\ h.refs = Saved(whole).refs
                  /\ \A f \in Names : h.know[f] = Saved(whole).know[f]
<1> DEFINE kept == Saved(whole)
           AllLists == {l \in [WrittenItems -> UNION {ListsOf(i) : i \in WrittenItems}] : \A i \in WrittenItems : l[i] \in ListsOf(i)}
<1>1. PICK files \in FilesInOrder, items \in SetToSeqs(WrittenItems), lists \in AllLists :
        records = WriteItems(WriteFiles(FileHead, files), items, lists).out
  BY DEF Written
<1>2. \A i \in WrittenItems : lists[i] \in ListsOf(i)
  OBVIOUS
<1> HIDE DEF AllLists
<1>3. kept.know = Saved(TRUE).know /\ kept.refs = {s \in RefsIn(table, refs) : s.item.visibility = "global"}
  BY SavedIs
<1> HIDE DEF kept
<1>4. PICK g \in Meanings :
        /\ Writes(WriteFiles(FileHead, files), g, kept) /\ FilesKnown(g) /\ g.refs = {}
        /\ \A f \in Names : g.know[f] = kept.know[f]
  BY <1>3, FilesWritten
<1>5. PICK h \in Meanings :
        /\ Writes(WriteItems(WriteFiles(FileHead, files), items, lists), h, kept)
        /\ h.know = g.know /\ h.refs = kept.refs
  BY <1>2, <1>3, <1>4, ItemsWritten
<1>6. Tells(records, h, kept)
  BY <1>1, <1>5, WritesFields
<1> QED
  BY <1>4, <1>5, <1>6 DEF kept

-----------------------------------------------------------------------------
(* Reading *)

\* A reader of this table has read what means g
FollowsIn(sc, tab, kn, rs, g) ==
  /\ sc \in [at : Nat \ {0}, used : SUBSET NumberTags, last : [NumberTags -> Nat], mapping : [Slots -> Slots],
             item : ItemsOf(tab) \cup {NoItem}]
  /\ sc.last = g.last /\ (sc.at >= 3 => NumberKeys \subseteq sc.used)
  /\ \A n \in Slots : g.named[n] # Empty => tab[sc.mapping[n]] = g.named[n]
  /\ g.item # NoItem => sc.item \in ItemsOf(tab) /\ ItemNamed(tab, sc.item) = g.item
  /\ RefsIn(tab, rs) = g.refs /\ \A f \in Names : KnowIn(tab, kn)[f] = g.know[f]

NextRecord(sc) == [sc EXCEPT !.at = @ + 1]

LEMMA ScanFields ==
    ASSUME NEW sc, NEW tab, NEW kn, NEW rs, NEW g, FollowsIn(sc, tab, kn, rs, g)
    PROVE  /\ NextRecord(sc) = [at |-> sc.at + 1, used |-> sc.used, last |-> sc.last, mapping |-> sc.mapping, item |-> sc.item]
           /\ sc.at \in Nat \ {0} /\ sc.used \subseteq NumberTags /\ sc.last \in [NumberTags -> Nat]
           /\ sc.mapping \in [Slots -> Slots] /\ sc.item \in ItemsOf(tab) \cup {NoItem}
BY DEF FollowsIn, NextRecord

LEMMA FollowsFacts ==
    ASSUME NEW sc, NEW tab, NEW kn, NEW rs, NEW g, FollowsIn(sc, tab, kn, rs, g)
    PROVE  /\ sc.last = g.last /\ (sc.at >= 3 => NumberKeys \subseteq sc.used)
           /\ \A n \in Slots : g.named[n] # Empty => tab[sc.mapping[n]] = g.named[n]
           /\ g.item # NoItem => sc.item \in ItemsOf(tab) /\ ItemNamed(tab, sc.item) = g.item
           /\ RefsIn(tab, rs) = g.refs /\ \A f \in Names : KnowIn(tab, kn)[f] = g.know[f]
BY DEF FollowsIn

LEMMA ScanIs ==
    ASSUME NEW tab, NEW at \in Nat \ {0}, NEW used \in SUBSET NumberTags, NEW last \in [NumberTags -> Nat],
           NEW mapping \in [Slots -> Slots], NEW item \in ItemsOf(tab) \cup {NoItem},
           NEW kn, NEW rs, NEW g,
           last = g.last, at >= 3 => NumberKeys \subseteq used,
           \A n \in Slots : g.named[n] # Empty => tab[mapping[n]] = g.named[n],
           g.item # NoItem => item \in ItemsOf(tab) /\ ItemNamed(tab, item) = g.item,
           RefsIn(tab, rs) = g.refs, \A f \in Names : KnowIn(tab, kn)[f] = g.know[f]
    PROVE  FollowsIn([at |-> at, used |-> used, last |-> last, mapping |-> mapping, item |-> item], tab, kn, rs, g)
BY DEF FollowsIn

LEMMA NumberRead ==
    ASSUME NEW sc, NEW tab, NEW kn, NEW rs, NEW g \in Meanings, FollowsIn(sc, tab, kn, rs, g), NEW rec, NEW h,
           MeansNumber(g, rec, h), sc.at >= 3
    PROVE  FollowsIn([NextRecord(sc) EXCEPT !.last[rec.tag] = rec.data], tab, kn, rs, h)
<1> DEFINE last == [g.last EXCEPT ![rec.tag] = rec.data]
<1>1. rec.tag \in NumberTags /\ rec.data \in Nat /\ h = [g EXCEPT !.last = last]
  BY DEF MeansNumber, NumberKeys
<1>2. g.last \in [NumberTags -> Nat]
  BY DEF Meanings
<1>3. last \in [NumberTags -> Nat]
  BY <1>1, <1>2
<1>4. /\ NextRecord(sc) = [at |-> sc.at + 1, used |-> sc.used, last |-> sc.last, mapping |-> sc.mapping, item |-> sc.item]
      /\ sc.at \in Nat \ {0} /\ sc.used \subseteq NumberTags
      /\ sc.mapping \in [Slots -> Slots] /\ sc.item \in ItemsOf(tab) \cup {NoItem}
  BY ScanFields
<1>5. sc.last = g.last
  BY DEF FollowsIn
<1>6. [NextRecord(sc) EXCEPT !.last[rec.tag] = rec.data]
        = [at |-> sc.at + 1, used |-> sc.used, last |-> last, mapping |-> sc.mapping, item |-> sc.item]
  BY <1>4, <1>5
<1> HIDE DEF last
<1>7. h.last = last /\ h.named = g.named /\ h.item = g.item /\ h.refs = g.refs /\ h.know = g.know
  BY <1>1 DEF Meanings
<1>8. NumberKeys \subseteq sc.used /\ sc.at + 1 \in Nat \ {0}
  BY <1>4, FollowsFacts
<1>9. \A n \in Slots : h.named[n] # Empty => tab[sc.mapping[n]] = h.named[n]
  BY <1>7, FollowsFacts
<1>10. h.item # NoItem => sc.item \in ItemsOf(tab) /\ ItemNamed(tab, sc.item) = h.item
  BY <1>7, FollowsFacts
<1>11. RefsIn(tab, rs) = h.refs /\ \A f \in Names : KnowIn(tab, kn)[f] = h.know[f]
  BY <1>7, FollowsFacts
<1>12. FollowsIn([at |-> sc.at + 1, used |-> sc.used, last |-> last, mapping |-> sc.mapping, item |-> sc.item], tab, kn, rs, h)
  BY <1>3, <1>4, <1>7, <1>8, <1>9, <1>10, <1>11, ScanIs
<1> QED
  BY <1>6, <1>12

\* A name gets a number
LEMMA NameRead ==
    ASSUME NEW sc, NEW tab, NEW kn, NEW rs, NEW g, FollowsIn(sc, tab, kn, rs, g), Sound(tab, kn, {}, rs),
           NEW p \in Slots, tab[p] = Empty, NEW name \in Named, \A n \in Slots : tab[n] # name
    PROVE  LET new == [tab EXCEPT ![p] = name] IN Sound(new, kn, {}, rs) /\ FollowsIn(sc, new, kn, rs, g)
<1> DEFINE new == [tab EXCEPT ![p] = name]
<1>1. Sound(new, kn, {}, rs) /\ RefsIn(new, rs) = RefsIn(tab, rs) /\ KnowIn(new, kn) = KnowIn(tab, kn)
  BY NewNameIs
<1>2. tab \in Table
  BY DEF Sound
<1>3. \A n \in Slots : tab[n] # Empty => new[n] = tab[n]
  BY <1>2 DEF Table
<1> HIDE DEF new
<1>4. \A i \in ItemsOf(tab) : i.include \in Slots /\ tab[i.include] # Empty /\ i \in ItemsOf(new)
  <2>1. \A n \in Slots : tab[n] \in Included => tab[n] # Empty /\ new[n] \in Included
    BY <1>3, ConstantsAre DEF Named
  <2>2. tab[NoFile] # Empty /\ NoFile \in Slots
    BY NoFileIs, ConstantsAre DEF Sound, Named
  <2>3. ItemsOf(tab) \subseteq ItemsOf(new)
    BY <2>1 DEF ItemsOf
  <2>4. \A i \in ItemsOf(tab) : i.include = NoFile \/ (i.include \in Slots /\ tab[i.include] \in Included)
    BY DEF ItemsOf
  <2> QED
    BY <2>1, <2>2, <2>3, <2>4
<1>5. \A i \in ItemsOf(tab) : ItemNamed(new, i) = ItemNamed(tab, i)
  BY <1>3, <1>4 DEF ItemNamed
<1>6. sc \in [at : Nat \ {0}, used : SUBSET NumberTags, last : [NumberTags -> Nat], mapping : [Slots -> Slots],
              item : ItemsOf(tab) \cup {NoItem}]
  BY DEF FollowsIn
<1>7. sc \in [at : Nat \ {0}, used : SUBSET NumberTags, last : [NumberTags -> Nat], mapping : [Slots -> Slots],
              item : ItemsOf(new) \cup {NoItem}]
  BY <1>4, <1>6
<1>8. \A n \in Slots : g.named[n] # Empty => new[sc.mapping[n]] = g.named[n]
  <2>1. sc.mapping \in [Slots -> Slots]
    BY <1>6
  <2> QED
    BY <1>3, <2>1, FollowsFacts
<1>9. g.item # NoItem => sc.item \in ItemsOf(new) /\ ItemNamed(new, sc.item) = g.item
  BY <1>4, <1>5, FollowsFacts
<1>10. /\ sc.last = g.last /\ (sc.at >= 3 => NumberKeys \subseteq sc.used)
       /\ RefsIn(tab, rs) = g.refs /\ \A f \in Names : KnowIn(tab, kn)[f] = g.know[f]
  BY FollowsFacts
<1>11. FollowsIn(sc, new, kn, rs, g)
  BY <1>1, <1>7, <1>8, <1>9, <1>10 DEF FollowsIn
<1> QED
  BY <1>1, <1>11 DEF new

KnownThen(sc, kn, p) == [kn EXCEPT ![p] = IF kn[p] = 0 THEN sc.last["w"] ELSE kn[p]]
NumberedThen(sc, p) == [NextRecord(sc) EXCEPT !.mapping[sc.last["f"]] = p]

LEMMA FileRead ==
    ASSUME NEW sc, NEW tab, NEW kn, NEW rs, NEW g \in Meanings, FollowsIn(sc, tab, kn, rs, g), Sound(tab, kn, {}, rs),
           NEW rec, NEW h, MeansFile(g, rec, h), sc.at >= 3, NEW p \in Slots, tab[p] = rec.data
    PROVE  /\ Sound(tab, KnownThen(sc, kn, p), {}, rs)
           /\ FollowsIn(NumberedThen(sc, p), tab, KnownThen(sc, kn, p), rs, h)
<1> DEFINE n == g.last["f"]
           time == IF kn[p] = 0 THEN sc.last["w"] ELSE kn[p]
           now == [kn EXCEPT ![p] = time]
           mapping == [sc.mapping EXCEPT ![n] = p]
<1>1. /\ rec.data \in Named /\ n \in Slots /\ g.last["w"] \in Times /\ (rec.data = NoFileName => g.last["w"] = 0)
      /\ h = [g EXCEPT !.named = NamesMeant(g, rec), !.know = TimesMeant(g, rec)]
  BY DEF MeansFile
<1>2. /\ g.last \in [NumberTags -> Nat] /\ g.named \in [Slots -> Named \cup {Empty}] /\ g.know \in [Named -> Times]
  BY DEF Meanings
<1>3. /\ NextRecord(sc) = [at |-> sc.at + 1, used |-> sc.used, last |-> sc.last, mapping |-> sc.mapping, item |-> sc.item]
      /\ sc.at \in Nat \ {0} /\ sc.used \subseteq NumberTags
      /\ sc.mapping \in [Slots -> Slots] /\ sc.item \in ItemsOf(tab) \cup {NoItem}
  BY ScanFields
<1>4. sc.last = g.last /\ NumberKeys \subseteq sc.used
  BY FollowsFacts
<1>5. [NextRecord(sc) EXCEPT !.mapping[sc.last["f"]] = p]
        = [at |-> sc.at + 1, used |-> sc.used, last |-> g.last, mapping |-> mapping, item |-> sc.item]
  BY <1>3, <1>4
<1>6. mapping \in [Slots -> Slots] /\ mapping[n] = p /\ \A m \in Slots : m # n => mapping[m] = sc.mapping[m]
  BY <1>1, <1>3
<1>7. kn \in [Slots -> Times] /\ (tab[p] \notin Names => kn[p] = 0)
  BY DEF Sound
<1>8. h.last = g.last /\ h.named = NamesMeant(g, rec) /\ h.item = g.item /\ h.refs = g.refs /\ h.know = TimesMeant(g, rec)
  BY <1>1 DEF Meanings
<1>9. NamesMeant(g, rec)[n] = rec.data /\ \A m \in Slots : m # n => NamesMeant(g, rec)[m] = g.named[m]
  BY <1>1, <1>2 DEF NamesMeant
<1> HIDE DEF mapping
<1>10. \A m \in Slots : h.named[m] # Empty => tab[mapping[m]] = h.named[m]
  <2> TAKE m \in Slots
  <2>1. CASE m = n
    BY <1>6, <1>8, <1>9, <2>1
  <2>2. CASE m # n
    BY <1>6, <1>8, <1>9, <2>2, FollowsFacts
  <2> QED
    BY <2>1, <2>2
<1>11. time \in Times
  BY <1>1, <1>4, <1>7
<1>12. \A f \in Named : TimesMeant(g, rec)[f]
         = IF f = rec.data THEN IF g.know[rec.data] = 0 THEN g.last["w"] ELSE g.know[rec.data] ELSE g.know[f]
  BY <1>1, <1>2 DEF TimesMeant
<1>13. Sound(tab, now, {}, rs) /\ \A f \in Names : KnowIn(tab, now)[f] = h.know[f]
  <2>1. CASE rec.data \in Names
    <3>1. KnowIn(tab, kn)[rec.data] = kn[p] /\ KnowIn(tab, kn) \in [Names -> Times]
      BY <2>1, KnowIs
    <3>2. g.know[rec.data] = kn[p]
      BY <2>1, <3>1, FollowsFacts
    <3>3. time = IF g.know[rec.data] = 0 THEN g.last["w"] ELSE g.know[rec.data]
      BY <1>4, <3>2
    <3> HIDE DEF time
    <3>4. Sound(tab, now, {}, rs) /\ KnowIn(tab, now) = [KnowIn(tab, kn) EXCEPT ![tab[p]] = time]
      BY <1>11, <2>1, KnownNow
    <3> HIDE DEF now
    <3>5. \A f \in Names : KnowIn(tab, now)[f] = IF f = rec.data THEN time ELSE KnowIn(tab, kn)[f]
      BY <3>1, <3>4
    <3>6. ASSUME NEW f \in Names PROVE KnowIn(tab, now)[f] = h.know[f]
      <4>1. KnowIn(tab, kn)[f] = g.know[f]
        BY FollowsFacts
      <4>2. h.know[f] = IF f = rec.data THEN time ELSE g.know[f]
        BY <1>8, <1>12, <3>3 DEF Named
      <4> QED
        BY <3>5, <4>1, <4>2
    <3> QED
      BY <3>4, <3>6
  <2>2. CASE rec.data = NoFileName
    <3>1. kn[p] = 0 /\ time = 0
      BY <1>1, <1>4, <1>7, <2>2, ConstantsAre
    <3> HIDE DEF time
    <3>2. now = kn
      BY <1>7, <3>1
    <3>3. ASSUME NEW f \in Names PROVE KnowIn(tab, kn)[f] = h.know[f]
      <4>1. KnowIn(tab, kn)[f] = g.know[f]
        BY FollowsFacts
      <4>2. f # rec.data
        BY <2>2, ConstantsAre
      <4> QED
        BY <1>8, <1>12, <4>1, <4>2 DEF Named
    <3> HIDE DEF now
    <3> QED
      BY <3>2, <3>3
  <2> QED
    BY <1>1, <2>1, <2>2 DEF Named
<1> HIDE DEF now
<1>14. h.item # NoItem => sc.item \in ItemsOf(tab) /\ ItemNamed(tab, sc.item) = h.item
  BY <1>8, FollowsFacts
<1>15. RefsIn(tab, rs) = h.refs
  BY <1>8, FollowsFacts
<1>16. g.last = h.last /\ g.last \in [NumberTags -> Nat] /\ sc.at + 1 \in Nat \ {0}
  BY <1>2, <1>3, <1>8
<1>17. FollowsIn([at |-> sc.at + 1, used |-> sc.used, last |-> g.last, mapping |-> mapping, item |-> sc.item], tab, now, rs, h)
  BY <1>3, <1>4, <1>6, <1>10, <1>13, <1>14, <1>15, <1>16, ScanIs
<1> QED
  BY <1>5, <1>13, <1>17 DEF now, KnownThen, NumberedThen

LEMMA ItemRead ==
    ASSUME NEW sc, NEW tab, NEW kn, NEW rs, NEW g \in Meanings, FollowsIn(sc, tab, kn, rs, g), Sound(tab, kn, {}, rs),
           NEW rec, NEW h, MeansItem(g, rec, h), sc.at >= 3
    PROVE  LET include == sc.mapping[sc.last["d"]]
           IN  /\ tab[include] # Empty
               /\ FollowsIn([NextRecord(sc) EXCEPT !.item = Item(sc.last["t"], rec.data, "global", include)], tab, kn, rs, h)
<1> DEFINE n == g.last["d"]
           include == sc.mapping[n]
           item == Item(g.last["t"], rec.data, "global", include)
<1>1. n \in Slots /\ ItemMeant(g, rec) \in NamedItems /\ h = [g EXCEPT !.item = ItemMeant(g, rec)]
  BY DEF MeansItem
<1>2. g.last \in [NumberTags -> Nat]
  BY DEF Meanings
<1>3. /\ NextRecord(sc) = [at |-> sc.at + 1, used |-> sc.used, last |-> sc.last, mapping |-> sc.mapping, item |-> sc.item]
      /\ sc.at \in Nat \ {0} /\ sc.used \subseteq NumberTags /\ sc.mapping \in [Slots -> Slots]
  BY ScanFields
<1>4. sc.last = g.last /\ NumberKeys \subseteq sc.used
  BY FollowsFacts
<1>5. include \in Slots
  BY <1>1, <1>3
<1>6. ItemMeant(g, rec) = [type |-> g.last["t"], name |-> rec.data, visibility |-> "global", include |-> g.named[n]]
  BY DEF ItemMeant, Item
<1>7. \/ /\ g.last["t"] = TypeDefault /\ rec.data \in LinkNames /\ g.named[n] = NoFileName
      \/ /\ g.last["t"] = TypeCppInclude /\ rec.data = "#include" /\ g.named[n] \in Included
  <2> DEFINE meant == [type |-> g.last["t"], name |-> rec.data, visibility |-> "global", include |-> g.named[n]]
  <2>1. /\ meant.type = g.last["t"] /\ meant.name = rec.data /\ meant.include = g.named[n]
    OBVIOUS
  <2>2. meant \in NamedItems
    BY <1>1, <1>6
  <2> HIDE DEF meant
  <2>3. \/ meant.type = TypeDefault /\ meant.name \in LinkNames /\ meant.include = NoFileName
        \/ meant.type = TypeCppInclude /\ meant.name = "#include" /\ meant.include \in Included
    BY <2>2 DEF NamedItems
  <2> QED
    BY <2>1, <2>3
<1>8. g.named[n] # Empty
  BY <1>7, ConstantsAre DEF Named
<1>9. tab[include] = g.named[n]
  BY <1>1, <1>8, FollowsFacts
<1>10. g.named[n] = NoFileName => include = NoFile
  BY <1>5, <1>8, <1>9, NoFileIs DEF Sound
<1> HIDE DEF include
<1>11. item = [type |-> g.last["t"], name |-> rec.data, visibility |-> "global", include |-> include]
  BY DEF Item
<1>12. item \in ItemsOf(tab)
  BY <1>5, <1>7, <1>9, <1>10, <1>11 DEF ItemsOf
<1>13. ItemNamed(tab, item) = ItemMeant(g, rec)
  <2>1. item.type = g.last["t"] /\ item.name = rec.data /\ item.visibility = "global" /\ item.include = include
    BY <1>11
  <2> HIDE DEF item
  <2>2. ItemNamed(tab, item) = [type |-> item.type, name |-> item.name, visibility |-> item.visibility, include |-> tab[item.include]]
    BY <1>12, ItemNamedIs
  <2> QED
    BY <1>6, <1>9, <2>1, <2>2
<1>14. [NextRecord(sc) EXCEPT !.item = item]
         = [at |-> sc.at + 1, used |-> sc.used, last |-> g.last, mapping |-> sc.mapping, item |-> item]
  <2> HIDE DEF item
  <2> QED
    BY <1>3, <1>4
<1> HIDE DEF item
<1>15. h.last = g.last /\ h.named = g.named /\ h.item = ItemMeant(g, rec) /\ h.refs = g.refs /\ h.know = g.know
  BY <1>1 DEF Meanings
<1>16. \A m \in Slots : h.named[m] # Empty => tab[sc.mapping[m]] = h.named[m]
  BY <1>15, FollowsFacts
<1>17. RefsIn(tab, rs) = h.refs /\ \A f \in Names : KnowIn(tab, kn)[f] = h.know[f]
  BY <1>15, FollowsFacts
<1>18. h.item # NoItem => item \in ItemsOf(tab) /\ ItemNamed(tab, item) = h.item
  BY <1>12, <1>13, <1>15
<1>19. g.last = h.last /\ sc.at + 1 \in Nat \ {0} /\ item \in ItemsOf(tab) \cup {NoItem}
  BY <1>3, <1>12, <1>15
<1>20. FollowsIn([at |-> sc.at + 1, used |-> sc.used, last |-> g.last, mapping |-> sc.mapping, item |-> item], tab, kn, rs, h)
  BY <1>2, <1>3, <1>4, <1>16, <1>17, <1>18, <1>19, ScanIs
<1>21. tab[include] # Empty
  BY <1>8, <1>9
<1> QED
  BY <1>4, <1>14, <1>20, <1>21 DEF item, include

LEMMA ReferenceRead ==
    ASSUME NEW sc, NEW tab, NEW kn, NEW rs, NEW g \in Meanings, FollowsIn(sc, tab, kn, rs, g), Sound(tab, kn, {}, rs),
           NEW rec, NEW h, MeansReference(g, rec, h), sc.at >= 3
    PROVE  LET r == [item |-> sc.item, file |-> sc.mapping[sc.last["f"]], line |-> sc.last["l"], usage |-> sc.last["u"]]
           IN  Sound(tab, kn, {}, Added(rs, r)) /\ FollowsIn(NextRecord(sc), tab, kn, Added(rs, r), h)
<1> DEFINE n == g.last["f"]
           r == [item |-> sc.item, file |-> sc.mapping[n], line |-> g.last["l"], usage |-> g.last["u"]]
           meant == ReferenceMeant(g)
           more == g.refs \cup {meant}
<1>1. n \in Slots /\ meant \in NamedRefs /\ (\A q \in g.refs : Place(q) = Place(meant) => q = meant) /\ h = [g EXCEPT !.refs = more]
  BY DEF MeansReference
<1>2. g.last \in [NumberTags -> Nat]
  BY DEF Meanings
<1>3. /\ NextRecord(sc) = [at |-> sc.at + 1, used |-> sc.used, last |-> sc.last, mapping |-> sc.mapping, item |-> sc.item]
      /\ sc.at \in Nat \ {0} /\ sc.used \subseteq NumberTags /\ sc.mapping \in [Slots -> Slots]
      /\ sc.item \in ItemsOf(tab) \cup {NoItem}
  BY ScanFields
<1>4. sc.last = g.last /\ NumberKeys \subseteq sc.used
  BY FollowsFacts
<1>5. meant = [item |-> g.item, file |-> g.named[n], line |-> g.last["l"], usage |-> g.last["u"]]
  BY DEF ReferenceMeant
<1>6. g.item \in NamedItems /\ g.named[n] \in Names /\ g.last["l"] \in Lines /\ g.last["u"] \in Usages
  BY <1>1, <1>5 DEF NamedRefs
<1>7. NoItem \notin NamedItems
  <2>1. NoItem.type = 0
    BY DEF NoItem, Item
  <2>2. \A i \in NamedItems : i.type # 0
    BY DEF NamedItems, TypeDefault, TypeCppInclude
  <2> QED
    BY <2>1, <2>2
<1>8. sc.item \in ItemsOf(tab) /\ ItemNamed(tab, sc.item) = g.item
  BY <1>6, <1>7, FollowsFacts
<1>9. sc.mapping[n] \in Slots /\ tab[sc.mapping[n]] = g.named[n]
  BY <1>1, <1>3, <1>6, FollowsFacts, ConstantsAre DEF Named
<1>10. r \in RefsOf(tab)
  BY <1>6, <1>8, <1>9 DEF RefsOf
<1>11. r.item = sc.item /\ r.file = sc.mapping[n] /\ r.line = g.last["l"] /\ r.usage = g.last["u"]
  OBVIOUS
<1>12. r = [item |-> sc.item, file |-> sc.mapping[sc.last["f"]], line |-> sc.last["l"], usage |-> sc.last["u"]]
  BY <1>4
<1> HIDE DEF r
<1>13. ByName(tab, r) = meant
  <2>1. ByName(tab, r) = [item |-> ItemNamed(tab, r.item), file |-> tab[r.file], line |-> r.line, usage |-> r.usage]
    BY <1>10, ByNameIs
  <2> HIDE DEF meant
  <2> QED
    BY <1>5, <1>8, <1>9, <1>11, <2>1
<1>14. Sound(tab, kn, {}, Added(rs, r)) /\ RefsIn(tab, Added(rs, r)) = Added(RefsIn(tab, rs), ByName(tab, r))
  BY <1>10, AddedIs
<1>15. RefsIn(tab, rs) = g.refs
  BY FollowsFacts
<1> HIDE DEF meant
<1>16. RefsIn(tab, Added(rs, r)) = more
  <2>1. Added(g.refs, meant) = more
    BY <1>1 DEF Added
  <2> QED
    BY <1>13, <1>14, <1>15, <2>1
<1> HIDE DEF more
<1>17. h.last = g.last /\ h.named = g.named /\ h.item = g.item /\ h.refs = more /\ h.know = g.know
  BY <1>1 DEF Meanings
<1>18. \A m \in Slots : h.named[m] # Empty => tab[sc.mapping[m]] = h.named[m]
  BY <1>17, FollowsFacts
<1>19. h.item # NoItem => sc.item \in ItemsOf(tab) /\ ItemNamed(tab, sc.item) = h.item
  BY <1>17, FollowsFacts
<1>20. RefsIn(tab, Added(rs, r)) = h.refs /\ \A f \in Names : KnowIn(tab, kn)[f] = h.know[f]
  BY <1>16, <1>17, FollowsFacts
<1>21. g.last = h.last /\ sc.at + 1 \in Nat \ {0}
  BY <1>3, <1>17
<1>22. FollowsIn([at |-> sc.at + 1, used |-> sc.used, last |-> g.last, mapping |-> sc.mapping, item |-> sc.item],
                 tab, kn, Added(rs, r), h)
  BY <1>2, <1>3, <1>4, <1>18, <1>19, <1>20, <1>21, ScanIs
<1> QED
  BY <1>3, <1>4, <1>12, <1>14, <1>22

-----------------------------------------------------------------------------
(* The steps of the server *)

OldVersion == <<Record("v", Version - 1), Record("f", 1), Record(":", NoFileName)>>
NothingSaved == [refs |-> {}, know |-> [f \in Names |-> 0], whole |-> TRUE]

\* The records mean what was saved, or a part of it
Told(file, ms, kept) ==
  /\ Meant(file, ms) /\ Parts(file, ms, kept)
  /\ kept.whole => /\ ms[Len(file)].refs = kept.refs
                   /\ \A f \in Names : ms[Len(file)].know[f] = kept.know[f]

Reads(ms) ==
  status = "scanning" =>
    scan.at \in 1..(Len(cxFile) + 1) /\ FollowsIn(scan, table, know, refs, ms[scan.at - 1])

OldSnapshot ==
  /\ cxFile \in {NoSnapshot, OldVersion} /\ saved = NothingSaved
  /\ status = "scanning" => cxFile = OldVersion /\ scan.at = 1 /\ refs = {} /\ know = Zeros

Snapshot == OldSnapshot \/ \E ms : Told(cxFile, ms, saved) /\ Reads(ms)

SavedTyped == saved.know \in [Names -> Times] /\ saved.whole \in BOOLEAN

KInv == IInv /\ Server /\ SavedTyped /\ Snapshot

Shown == [Promise!Next]_(Promise!vars)

LEMMA SnapshotStays ==
    ASSUME SavedTyped, Snapshot, UNCHANGED <<cxFile, saved>>, status' # "scanning"
    PROVE  SavedTyped' /\ Snapshot'
<1>1. SavedTyped'
  BY DEF SavedTyped
<1>2. CASE OldSnapshot
  BY <1>1, <1>2 DEF OldSnapshot, Snapshot
<1>3. CASE \E ms : Told(cxFile, ms, saved)
  <2>1. PICK ms : Told(cxFile, ms, saved)
    BY <1>3
  <2>2. Told(cxFile', ms, saved')
    BY <2>1
  <2>3. Reads(ms)'
    BY DEF Reads
  <2> QED
    BY <1>1, <2>2, <2>3 DEF Snapshot
<1> QED
  BY <1>1, <1>2, <1>3 DEF Snapshot

LEMMA HiddenStep ==
    ASSUME status \in {"started", "scanning"}, status' \in {"started", "scanning"}, UNCHANGED saved,
           deleted = {}, deleted' = {}
    PROVE  Shown
<1>1. GoneByName = {} /\ GoneByName' = {}
  BY DEF GoneByName
<1>2. ~Visible /\ ~Visible'
  BY DEF Visible
<1>3. UNCHANGED (Promise!vars)
  BY <1>1, <1>2 DEF Promise!vars
<1> QED
  BY <1>3 DEF Shown

LEMMA DownStep ==
    ASSUME status \in {"started", "scanning", "open"}, Down, UNCHANGED saved
    PROVE  Shown /\ Server'
<1>1. status' = "down" /\ deleted' = {} /\ refs' = {} /\ know' = Zeros
  BY DEF Down, Blank, Zeros
<1>2. GoneByName' = {}
  BY <1>1 DEF GoneByName
<1>3. ~Visible'
  BY <1>1 DEF Visible
<1>4. Promise!Stop
  BY <1>1, <1>2, <1>3 DEF Promise!Stop, Promise!Blank, Promise!Nothing
<1>5. Server'
  BY <1>1 DEF Server, Zeros
<1> QED
  BY <1>4, <1>5 DEF Shown, Promise!Next

\* What a server that is open has by name
LEMMA OpenIs ==
    ASSUME status = "open"
    PROVE  /\ Visible /\ RefsByName = RefsIn(table, refs) /\ KnowByName = KnowIn(table, know)
           /\ GoneByName = GoneIn(table, deleted)
BY SavedIs DEF Visible

LEMMA OpenIsThen ==
    ASSUME status' = "open"
    PROVE  /\ Visible' /\ RefsByName' = RefsIn(table', refs') /\ KnowByName' = KnowIn(table', know')
           /\ GoneByName' = GoneIn(table', deleted')
<1>1. RefsByName' = RefsIn(table', refs')
  BY DEF RefsByName, RefsIn, ByName
<1>2. KnowByName' = KnowIn(table', know')
  BY DEF KnowByName, KnowIn, Numbers
<1>3. GoneByName' = GoneIn(table', deleted')
  BY DEF GoneByName, GoneIn
<1> QED
  BY <1>1, <1>2, <1>3 DEF Visible

LEMMA StartStep ==
    ASSUME KInv, Start
    PROVE  Server' /\ SavedTyped' /\ Snapshot' /\ Shown
<1>1. /\ status = "down" /\ status' = "started"
      /\ table' = [n \in Slots |-> IF n = NoFile THEN NoFileName ELSE Empty]
      /\ UNCHANGED <<deleted, know, refs, cxFile, scan, saved, saves>>
  BY DEF Start
<1>2. refs = {} /\ know = Zeros /\ deleted = {}
  BY <1>1 DEF KInv, Server
<1>3. Sound(table', know', deleted', refs')
  BY <1>1, <1>2, AloneIsSound
<1>4. Server'
  BY <1>1, <1>2, <1>3 DEF Server, Zeros
<1>5. SavedTyped' /\ Snapshot'
  BY <1>1, SnapshotStays DEF KInv
<1>6. ~Visible' /\ GoneByName' = {}
  BY <1>1, <1>2 DEF Visible, GoneByName
<1>7. Promise!Start
  BY <1>1, <1>6 DEF Promise!Start, Promise!Blank, Promise!Nothing
<1> QED
  BY <1>4, <1>5, <1>7 DEF Shown, Promise!Next

LEMMA StopStep ==
    ASSUME KInv, Stop
    PROVE  Server' /\ SavedTyped' /\ Snapshot' /\ Shown
<1>1. status \in {"started", "scanning", "open"} /\ Down /\ UNCHANGED <<cxFile, saved>>
  BY DEF Stop
<1>2. status' # "scanning"
  BY <1>1 DEF Down
<1> QED
  BY <1>1, <1>2, DownStep, SnapshotStays DEF KInv

\* Where a name is looked for it is, or there is room for it
LEMMA PositionIs ==
    ASSUME IInv, status \in {"started", "scanning", "open"}, NEW name \in Named
    PROVE  /\ Position(table, name) \in Slots
           /\ Exists(table, name) => table[Position(table, name)] = name
           /\ ~Exists(table, name) => table[Position(table, name)] = Empty /\ \A n \in Slots : table[n] # name
<1>1. RightTable(table, count)
  BY DEF IInv
<1>2. PICK k \in Slots : EndsAt(table, name, k)
  BY <1>1, SearchEnds DEF Named
<1>3. Position(table, name) = Probe(name, k) /\ Probe(name, k) \in Slots
  BY <1>2, PositionIsEnd, ProbeInSlots DEF Named
<1>4. ASSUME NEW n \in Slots, table[n] = name PROVE Position(table, name) = n
  <2>1. name # Empty
    BY ConstantsAre
  <2> QED
    BY <1>1, <1>4, <2>1, FoundWhereItIs
<1> QED
  BY <1>2, <1>3, <1>4 DEF EndsAt, Exists

LEMMA AddFileNameStep ==
    ASSUME KInv, NEW name \in Names, AddFileName(name)
    PROVE  Server' /\ SavedTyped' /\ Snapshot' /\ Shown
<1> DEFINE p == Position(table, name)
<1>1. status \in {"started", "open"} /\ UNCHANGED <<cxFile, saved>>
  BY DEF AddFileName, Works
<1>2. IInv /\ Sound(table, know, deleted, refs) /\ name \in Named
  BY <1>1 DEF KInv, Server, Named
<1>3. /\ p \in Slots /\ (Exists(table, name) => table[p] = name)
      /\ ~Exists(table, name) => table[p] = Empty /\ \A n \in Slots : table[n] # name
  BY <1>1, <1>2, PositionIs
<1>4. CASE Exists(table, name)
  <2>1. deleted' = deleted \ {p} /\ UNCHANGED <<status, table, count, know, refs>>
    BY <1>4 DEF AddFileName
  <2> HIDE DEF p
  <2>2. Sound(table', know', deleted', refs')
    <3>1. Sound(table, know, deleted \ {p}, refs)
      BY <1>2 DEF Sound
    <3> QED
      BY <2>1, <3>1
  <2>3. Server'
    BY <1>1, <2>1, <2>2 DEF Server, KInv, Zeros, Slots
  <2>4. SavedTyped' /\ Snapshot'
    BY <1>1, <2>1, SnapshotStays DEF KInv
  <2>5. GoneIn(table, deleted \ {p}) = GoneIn(table, deleted) \ {name}
    <3>1. \A m, n \in Slots : table[m] = table[n] /\ table[m] # Empty => m = n
      BY <1>2 DEF Sound
    <3>2. deleted \subseteq Slots /\ name # Empty /\ table[p] = name
      BY <1>2, <1>3, <1>4, ConstantsAre DEF Sound
    <3>3. \A x : x \in GoneIn(table, deleted \ {p}) <=> x \in GoneIn(table, deleted) \ {name}
      BY <1>3, <3>1, <3>2 DEF GoneIn
    <3> QED
      BY <3>3
  <2>6. GoneByName = GoneIn(table, deleted) /\ GoneByName' = GoneIn(table', deleted')
    BY DEF GoneByName, GoneIn
  <2>7. GoneByName' = GoneByName \ {name}
    BY <2>1, <2>5, <2>6
  <2>8. /\ Visible' = Visible /\ RefsByName' = RefsByName /\ KnowByName' = KnowByName
    BY <2>1 DEF Visible, RefsByName, KnowByName, Numbers
  <2>9. Promise!Meet(name)
    BY <1>1, <2>1, <2>7, <2>8 DEF Promise!Meet
  <2>10. Promise!Next
    BY <2>9 DEF Promise!Next
  <2> QED
    BY <2>3, <2>4, <2>10 DEF Shown
<1>5. CASE ~Exists(table, name) /\ Overflows(count + 1)
  <2>1. Down
    BY <1>5 DEF AddFileName, AddNew
  <2>2. status' # "scanning"
    BY <2>1 DEF Down
  <2> QED
    BY <1>1, <2>1, <2>2, DownStep, SnapshotStays DEF KInv
<1>6. CASE ~Exists(table, name) /\ ~Overflows(count + 1)
  <2> DEFINE new == [table EXCEPT ![p] = name]
  <2>1. table' = new /\ UNCHANGED <<status, deleted, know, refs>>
    BY <1>6 DEF AddFileName, AddNew
  <2> HIDE DEF p
  <2>2. /\ Sound(new, know, deleted, refs) /\ RefsIn(new, refs) = RefsIn(table, refs)
        /\ KnowIn(new, know) = KnowIn(table, know) /\ GoneIn(new, deleted) = GoneIn(table, deleted)
    BY <1>2, <1>3, <1>6, NewNameIs
  <2> HIDE DEF new
  <2>3. Server'
    BY <1>1, <2>1, <2>2 DEF Server, KInv, Zeros, Slots
  <2>4. SavedTyped' /\ Snapshot'
    BY <1>1, <2>1, SnapshotStays DEF KInv
  <2>5. /\ GoneByName = GoneIn(table, deleted) /\ GoneByName' = GoneIn(table', deleted')
        /\ RefsByName = RefsIn(table, refs) /\ RefsByName' = RefsIn(table', refs')
        /\ KnowByName = KnowIn(table, know) /\ KnowByName' = KnowIn(table', know')
    BY DEF GoneByName, GoneIn, RefsByName, RefsIn, ByName, KnowByName, KnowIn, Numbers
  <2>6. GoneByName' = GoneByName /\ RefsByName' = RefsByName /\ KnowByName' = KnowByName
    BY <2>1, <2>2, <2>5
  <2>7. Visible' = Visible
    BY <2>1 DEF Visible
  <2>8. UNCHANGED (Promise!vars)
    BY <1>1, <2>1, <2>6, <2>7 DEF Promise!vars
  <2> QED
    BY <2>3, <2>4, <2>8 DEF Shown
<1> QED
  BY <1>4, <1>5, <1>6

LEMMA RemoveFileStep ==
    ASSUME KInv, NEW n \in Slots, RemoveFile(n)
    PROVE  Server' /\ SavedTyped' /\ Snapshot' /\ Shown
<1> DEFINE left == NotOf(refs, n)
           name == table[n]
<1>1. /\ status = "open" /\ table[n] \in Removable /\ deleted' = deleted \cup {n} /\ refs' = left
      /\ UNCHANGED <<status, table, count, know, cxFile, saved>>
  BY DEF RemoveFile, Works, MarkFileAsDeleted, Without, NotOf
<1>2. Sound(table, know, deleted, refs) /\ table[n] \in Names
  BY <1>1, ConstantsAre DEF KInv, Server
<1>3. Sound(table, know, deleted \cup {n}, left) /\ RefsIn(table, left) = NotOf(RefsIn(table, refs), name)
  BY <1>1, <1>2, WithoutIs
<1>4. GoneIn(table, deleted \cup {n}) = GoneIn(table, deleted) \cup {name}
  BY DEF GoneIn
<1> HIDE DEF left, name
<1>5. Server'
  BY <1>1, <1>3 DEF Server
<1>6. SavedTyped' /\ Snapshot'
  BY <1>1, SnapshotStays DEF KInv
<1>7. Promise!MarkAsDeleted(name)
  <2>1. /\ Visible /\ RefsByName = RefsIn(table, refs) /\ KnowByName = KnowIn(table, know) /\ GoneByName = GoneIn(table, deleted)
    BY <1>1, OpenIs
  <2>2. /\ Visible' /\ RefsByName' = RefsIn(table', refs') /\ KnowByName' = KnowIn(table', know')
        /\ GoneByName' = GoneIn(table', deleted')
    BY <1>1, OpenIsThen
  <2>3. RefsByName' = NotOf(RefsByName, name) /\ KnowByName' = KnowByName /\ GoneByName' = GoneByName \cup {name}
    BY <1>1, <1>3, <1>4, <2>1, <2>2
  <2> QED
    BY <1>1, <2>1, <2>2, <2>3 DEF Promise!MarkAsDeleted, NotOf
<1>8. name \in Names
  BY <1>2 DEF name
<1> QED
  BY <1>5, <1>6, <1>7, <1>8 DEF Shown, Promise!Next

LEMMA BeginParseStep ==
    ASSUME KInv, NEW n \in Slots, BeginParse(n)
    PROVE  Server' /\ SavedTyped' /\ Snapshot' /\ Shown
<1> DEFINE left == NotOf(refs, n)
           name == table[n]
<1>1. /\ status = "open" /\ table[n] \in Names /\ refs' = left
      /\ UNCHANGED <<status, table, count, deleted, cxFile, saved>>
  BY DEF BeginParse, Works, Without, NotOf
<1>2. PICK time \in 1..MaxTime : know' = [know EXCEPT ![n] = time]
  BY DEF BeginParse
<1> DEFINE now == [know EXCEPT ![n] = time]
<1>3. time \in Times
  BY ConstantsAre DEF Times
<1>4. Sound(table, know, deleted, refs)
  BY <1>1 DEF KInv, Server
<1>5. Sound(table, know, deleted, left) /\ RefsIn(table, left) = NotOf(RefsIn(table, refs), name)
  <2>1. table[n] \in Names
    BY <1>1
  <2> QED
    BY ZenonT(60), <1>4, <2>1, WithoutIs
<1> HIDE DEF left
<1>6. Sound(table, now, deleted, left) /\ KnowIn(table, now) = [KnowIn(table, know) EXCEPT ![name] = time]
  BY <1>1, <1>3, <1>5, KnownNow
<1>7. know' = now
  BY <1>2
<1> HIDE DEF now, name
<1>8. Server'
  BY <1>1, <1>6, <1>7 DEF Server
<1>9. SavedTyped' /\ Snapshot'
  BY <1>1, SnapshotStays DEF KInv
<1>10. Promise!Parse(name, time)
  <2>1. /\ Visible /\ RefsByName = RefsIn(table, refs) /\ KnowByName = KnowIn(table, know) /\ GoneByName = GoneIn(table, deleted)
    BY <1>1, OpenIs
  <2>2. /\ Visible' /\ RefsByName' = RefsIn(table', refs') /\ KnowByName' = KnowIn(table', know')
        /\ GoneByName' = GoneIn(table', deleted')
    BY <1>1, OpenIsThen
  <2>3. /\ RefsByName' = NotOf(RefsByName, name) /\ KnowByName' = [KnowByName EXCEPT ![name] = time]
        /\ GoneByName' = GoneByName
    BY <1>1, <1>5, <1>6, <1>7, <2>1, <2>2
  <2> QED
    BY <1>1, <2>1, <2>2, <2>3 DEF Promise!Parse, NotOf
<1>11. name \in Names /\ time \in 0..MaxTime
  BY <1>1, <1>3 DEF name, Times
<1> QED
  BY <1>8, <1>9, <1>10, <1>11 DEF Shown, Promise!Next

LEMMA AddReferenceStep ==
    ASSUME HeadersStay, KInv, NEW r \in [item : Items, file : Slots, line : Lines, usage : Usages], AddReference(r)
    PROVE  Server' /\ SavedTyped' /\ Snapshot' /\ Shown
<1> DEFINE more == Added(refs, r)
           named == ByName(table, r)
<1>1. /\ status = "open" /\ table[r.file] \in Names /\ r.file \notin deleted /\ refs' = more
      /\ UNCHANGED <<status, table, count, deleted, know, cxFile, saved>>
  BY DEF AddReference, Works
<1>2. Sound(table, know, deleted, refs)
  BY <1>1 DEF KInv, Server
<1>3. r \in RefsOf(table)
  <2>1. Items = ItemsOf(table)
    BY DEF Items, ItemsOf
  <2> QED
    BY <1>1, <2>1 DEF RefsOf
<1>4. Sound(table, know, deleted, more) /\ RefsIn(table, more) = Added(RefsIn(table, refs), named)
  BY <1>1, <1>2, <1>3, AddedIs
<1>5. named \in NamedRefs
  BY <1>2, <1>3, RefNamedIn DEF ServerSound
<1> HIDE DEF more, named
<1>6. Server'
  BY <1>1, <1>4 DEF Server
<1>7. SavedTyped' /\ Snapshot'
  BY <1>1, SnapshotStays DEF KInv
<1>8. Promise!Record(named)
  <2>1. /\ Visible /\ RefsByName = RefsIn(table, refs) /\ KnowByName = KnowIn(table, know) /\ GoneByName = GoneIn(table, deleted)
    BY <1>1, OpenIs
  <2>2. /\ Visible' /\ RefsByName' = RefsIn(table', refs') /\ KnowByName' = KnowIn(table', know')
        /\ GoneByName' = GoneIn(table', deleted')
    BY <1>1, OpenIsThen
  <2>3. RefsByName' = {q \in RefsByName : Place(q) # Place(named)} \cup {named}
    BY <1>1, <1>4, <2>1, <2>2 DEF Added
  <2>4. \A q : (Place(q) # Place(named)) <=> ~Promise!SamePlace(q, named)
    BY DEF Place, Promise!SamePlace
  <2>5. RefsByName' = {q \in RefsByName : ~Promise!SamePlace(q, named)} \cup {named}
    BY <2>3, <2>4
  <2>6. KnowByName' = KnowByName /\ GoneByName' = GoneByName
    BY <1>1, <2>1, <2>2
  <2> QED
    BY <1>1, <2>1, <2>2, <2>5, <2>6 DEF Promise!Record
<1>9. Promise!Next
  BY <1>5, <1>8 DEF Promise!Next, NamedRefs, NamedItems
<1> QED
  BY <1>6, <1>7, <1>9 DEF Shown

LEMMA LoadStep ==
    ASSUME status \in {"started", "scanning"}, status' = "open", UNCHANGED saved, deleted' = {}, SavedTyped,
           RefsIn(table', refs') \subseteq saved.refs, KnowIn(table', know') \in [Names -> Times],
           \A f \in Names : KnowIn(table', know')[f] \in {0, saved.know[f]},
           saved.whole => /\ RefsIn(table', refs') = saved.refs
                          /\ \A f \in Names : KnowIn(table', know')[f] = saved.know[f]
    PROVE  Shown
<1> DEFINE rs == RefsIn(table', refs')
           kn == KnowIn(table', know')
<1>1. Visible' /\ RefsByName' = rs /\ KnowByName' = kn
  BY OpenIsThen
<1>2. GoneByName' = {}
  BY DEF GoneByName
<1>3. /\ saved.whole => rs = saved.refs /\ kn = saved.know
      /\ rs \subseteq saved.refs /\ kn \in [Names -> 0..MaxTime] /\ \A f \in Names : kn[f] \in {0, saved.know[f]}
  <2>1. saved.know \in [Names -> Times] /\ kn \in [Names -> Times]
    BY DEF SavedTyped
  <2> HIDE DEF kn, rs
  <2>2. (\A f \in Names : kn[f] = saved.know[f]) => kn = saved.know
    BY <2>1
  <2> QED
    BY <2>1, <2>2 DEF Times, kn, rs
<1> HIDE DEF rs, kn
<1>4. Promise!Load
  <2>1. (IF status = "scanning" THEN "started" ELSE status) = "started"
    OBVIOUS
  <2>2. (IF status' = "scanning" THEN "started" ELSE status') = "open"
    OBVIOUS
  <2>3. \/ saved.whole /\ rs = saved.refs /\ kn = saved.know
        \/ /\ ~saved.whole /\ rs \subseteq saved.refs
           /\ kn \in [Names -> 0..MaxTime] /\ \A f \in Names : kn[f] \in {0, saved.know[f]}
    BY <1>3
  <2> QED
    BY <1>1, <1>2, <2>1, <2>2, <2>3 DEF Promise!Load
<1> QED
  BY <1>4 DEF Shown, Promise!Next

LEMMA NothingIn ==
    ASSUME NEW tab
    PROVE  /\ RefsIn(tab, {}) = {} /\ KnowIn(tab, Zeros) \in [Names -> Times]
           /\ \A f \in Names : KnowIn(tab, Zeros)[f] = 0
<1>1. RefsIn(tab, {}) = {}
  BY DEF RefsIn
<1>2. \A f \in Names : KnowIn(tab, Zeros)[f] = 0
  <2> TAKE f \in Names
  <2>1. CASE {n \in Slots : tab[n] = f} = {}
    BY <2>1 DEF KnowIn
  <2>2. CASE {n \in Slots : tab[n] = f} # {}
    <3> DEFINE there == {n \in Slots : tab[n] = f}
               m == CHOOSE n \in there : TRUE
    <3>1. m \in there
      BY <2>2
    <3>2. Zeros[m] = 0
      BY <3>1 DEF Zeros
    <3> QED
      BY <2>2, <3>2 DEF KnowIn
  <2> QED
    BY <2>1, <2>2
<1>3. KnowIn(tab, Zeros) \in [Names -> Times]
  <2>1. KnowIn(tab, Zeros) = [f \in Names |-> KnowIn(tab, Zeros)[f]]
    BY DEF KnowIn
  <2>2. 0 \in Times
    BY ConstantsAre DEF Times
  <2> HIDE DEF KnowIn
  <2> QED
    BY <1>2, <2>1, <2>2
<1> QED
  BY <1>1, <1>2, <1>3

LEMMA ResetFollows ==
    ASSUME NEW tab, Sound(tab, Zeros, {}, {})
    PROVE  FollowsIn(Reset, tab, Zeros, {}, AtFirst) /\ Reset.at = 1
<1> DEFINE used == IF NoFile = 0 THEN {} ELSE {"d"}
           last == [t \in NumberTags |-> 0]
           mapping == [n \in Slots |-> IF n = NoFile THEN NoFile ELSE 0]
<1>1. Reset = [at |-> 1, used |-> used, last |-> last, mapping |-> mapping, item |-> NoItem]
  BY DEF Reset
<1>2. used \in SUBSET NumberTags
  BY DEF NumberTags, KeyList
<1>3. last \in [NumberTags -> Nat]
  OBVIOUS
<1>4. mapping \in [Slots -> Slots] /\ mapping[NoFile] = NoFile
  BY NoFileIs, ConstantsAre DEF Slots
<1>5. /\ AtFirst.last = last /\ AtFirst.item = NoItem /\ AtFirst.refs = {} /\ AtFirst.know = [f \in Named |-> 0]
      /\ AtFirst.named = [n \in Slots |-> IF n = NoFile THEN NoFileName ELSE Empty]
  BY DEF AtFirst
<1>6. \A n \in Slots : AtFirst.named[n] # Empty => n = NoFile /\ AtFirst.named[n] = NoFileName
  BY <1>5
<1>7. \A n \in Slots : AtFirst.named[n] # Empty => tab[mapping[n]] = AtFirst.named[n]
  BY <1>4, <1>6 DEF Sound
<1>8. RefsIn(tab, {}) = AtFirst.refs /\ \A f \in Names : KnowIn(tab, Zeros)[f] = AtFirst.know[f]
  BY <1>5, NothingIn DEF Named
<1> HIDE DEF used, last, mapping
<1>9. FollowsIn([at |-> 1, used |-> used, last |-> last, mapping |-> mapping, item |-> NoItem], tab, Zeros, {}, AtFirst)
  <2>1. 1 \in Nat \ {0} /\ (1 >= 3 => NumberKeys \subseteq used) /\ NoItem \in ItemsOf(tab) \cup {NoItem}
    OBVIOUS
  <2>2. AtFirst.item # NoItem => NoItem \in ItemsOf(tab) /\ ItemNamed(tab, NoItem) = AtFirst.item
    BY <1>5
  <2>3. last = AtFirst.last
    BY <1>5
  <2> QED
    BY <1>2, <1>3, <1>4, <1>7, <1>8, <2>1, <2>2, <2>3, ScanIs
<1> QED
  BY <1>1, <1>9

LEMMA VersionIsThere ==
    ASSUME NEW file, NEW ms, NEW kept, Told(file, ms, kept)
    PROVE  file # NoSnapshot
<1>1. Len(file) >= 1 => file[1] = Record("v", Version)
  BY DEF Told, Meant
<1>2. Len(NoSnapshot) = 1 /\ NoSnapshot[1] = Record("none", 0)
  BY DEF NoSnapshot
<1>3. Record("v", Version).tag = "v" /\ Record("none", 0).tag = "none"
  BY DEF Record
<1> QED
  BY <1>1, <1>2, <1>3

LEMMA LoadSnapshotStep ==
    ASSUME KInv, LoadSnapshot
    PROVE  Server' /\ SavedTyped' /\ Snapshot' /\ Shown
<1>1. /\ status = "started" /\ scan' = Reset /\ UNCHANGED <<table, count, deleted, know, refs, cxFile, saved>>
      /\ status' = IF cxFile = NoSnapshot THEN "open" ELSE "scanning"
  BY DEF LoadSnapshot, tables
<1>2. refs = {} /\ know = Zeros /\ deleted = {} /\ Sound(table, know, deleted, refs)
  BY <1>1 DEF KInv, Server
<1>3. Server'
  BY <1>1, <1>2 DEF Server
<1>4. RefsIn(table, refs) = {} /\ KnowIn(table, know) \in [Names -> Times] /\ \A f \in Names : KnowIn(table, know)[f] = 0
  BY <1>2, NothingIn
<1>5. CASE cxFile = NoSnapshot
  <2>1. SavedTyped' /\ Snapshot'
    BY <1>1, <1>5, SnapshotStays DEF KInv
  <2>2. saved = NothingSaved
    BY <1>5, VersionIsThere DEF KInv, Snapshot, OldSnapshot
  <2>3. saved.refs = {} /\ \A f \in Names : saved.know[f] = 0
    BY <2>2 DEF NothingSaved
  <2>4. RefsIn(table', refs') = {} /\ KnowIn(table', know') \in [Names -> Times] /\ \A f \in Names : KnowIn(table', know')[f] = 0
    BY <1>1, <1>4
  <2>5. status' = "open" /\ deleted' = {} /\ UNCHANGED saved /\ SavedTyped
    BY <1>1, <1>2, <1>5 DEF KInv
  <2>6. Shown
    BY <1>1, <2>3, <2>4, <2>5, LoadStep
  <2> QED
    BY <1>3, <2>1, <2>6
<1>6. CASE cxFile # NoSnapshot
  <2>1. status' = "scanning" /\ deleted' = {}
    BY <1>1, <1>2, <1>6
  <2>2. Shown
    BY <1>1, <1>2, <2>1, HiddenStep
  <2>3. SavedTyped'
    BY <1>1 DEF KInv, SavedTyped
  <2>4. Reset.at = 1 /\ FollowsIn(Reset, table, know, refs, AtFirst)
    BY <1>2, ResetFollows
  <2>5. CASE OldSnapshot
    <3>1. OldSnapshot'
      BY <1>1, <1>2, <1>6, <2>4, <2>5 DEF OldSnapshot
    <3> QED
      BY <1>3, <2>2, <2>3, <3>1 DEF Snapshot
  <2>6. ASSUME NEW ms, Told(cxFile, ms, saved) PROVE Snapshot'
    <3>1. Told(cxFile', ms, saved')
      BY <1>1, <2>6
    <3>2. Len(cxFile) \in Nat /\ ms[0] = AtFirst
      <4>1. cxFile \in Seq(Records) /\ \A i \in 0..Len(cxFile) : i <= 2 => ms[i] = AtFirst
        BY <2>6 DEF Told, Meant
      <4> QED
        BY <4>1
    <3>3. scan'.at = 1 /\ scan'.at - 1 = 0 /\ scan'.at \in 1..(Len(cxFile') + 1)
      BY <1>1, <2>4, <3>2
    <3>4. FollowsIn(scan', table', know', refs', ms[scan'.at - 1])
      BY <1>1, <2>4, <3>2, <3>3
    <3>5. Reads(ms)'
      BY <3>3, <3>4 DEF Reads
    <3> QED
      BY <3>1, <3>5 DEF Snapshot
  <2> QED
    BY <1>3, <2>2, <2>3, <2>5, <2>6 DEF KInv, Snapshot
<1> QED
  BY <1>5, <1>6

\* One record more is read
LEMMA ReadOn ==
    ASSUME KInv, status = "scanning", status' = "scanning", UNCHANGED <<cxFile, saved>>, deleted' = {},
           Sound(table', know', {}, refs'), NEW ms, Told(cxFile, ms, saved), scan.at \in 1..Len(cxFile),
           scan'.at = scan.at + 1, FollowsIn(scan', table', know', refs', ms[scan.at])
    PROVE  Server' /\ SavedTyped' /\ Snapshot' /\ Shown
<1>1. Server'
  BY DEF Server
<1>2. SavedTyped'
  BY DEF KInv, SavedTyped
<1>3. cxFile \in Seq(Records)
  BY DEF Told, Meant
<1>4. scan'.at \in 1..(Len(cxFile') + 1) /\ scan'.at - 1 = scan.at
  BY <1>3
<1>5. Reads(ms)'
  BY <1>4 DEF Reads
<1>6. Told(cxFile', ms, saved')
  OBVIOUS
<1>7. Snapshot'
  BY <1>5, <1>6 DEF Snapshot
<1>8. deleted = {}
  BY DEF KInv, Server
<1>9. Shown
  BY <1>8, HiddenStep
<1> QED
  BY <1>1, <1>2, <1>7, <1>9

\* What is known when a record other than the first is read
LEMMA ReadsNow ==
    ASSUME KInv, NEW tags, Scans(tags), "v" \notin tags
    PROVE  /\ status = "scanning" /\ deleted = {} /\ Sound(table, know, {}, refs)
           /\ cxFile[scan.at].tag \in tags
           /\ \E ms : /\ Told(cxFile, ms, saved) /\ scan.at \in 1..Len(cxFile) /\ scan.at >= 2
                      /\ FollowsIn(scan, table, know, refs, ms[scan.at - 1]) /\ ms[scan.at - 1] \in Meanings
                      /\ scan.at = 2 => cxFile[scan.at] = Record("@", KeyList) /\ ms[1] = AtFirst /\ ms[2] = AtFirst
                      /\ scan.at >= 3 => Means(ms[scan.at - 1], cxFile[scan.at], ms[scan.at])
<1>1. status = "scanning" /\ scan.at <= Len(cxFile) /\ cxFile[scan.at].tag \in tags
  BY DEF Scans, Scanned
<1>2. deleted = {} /\ Sound(table, know, {}, refs)
  BY <1>1 DEF KInv, Server
<1>3. ~OldSnapshot
  <2> SUFFICES ASSUME OldSnapshot PROVE FALSE
    OBVIOUS
  <2>1. cxFile = OldVersion /\ scan.at = 1
    BY <1>1 DEF OldSnapshot
  <2>2. cxFile[scan.at] = Record("v", Version - 1)
    BY <2>1 DEF OldVersion
  <2>3. cxFile[scan.at].tag = "v"
    BY <2>2 DEF Record
  <2> QED
    BY <1>1, <2>3
<1>4. PICK ms : Told(cxFile, ms, saved) /\ Reads(ms)
  BY <1>3 DEF KInv, Snapshot
<1>5. scan.at \in 1..(Len(cxFile) + 1) /\ FollowsIn(scan, table, know, refs, ms[scan.at - 1])
  BY <1>1, <1>4 DEF Reads
<1>6. /\ cxFile \in Seq(Records)
      /\ Len(cxFile) >= 1 => cxFile[1] = Record("v", Version)
      /\ Len(cxFile) >= 2 => cxFile[2] = Record("@", KeyList)
      /\ \A i \in 0..Len(cxFile) : ms[i] \in Meanings
      /\ \A i \in 0..Len(cxFile) : i <= 2 => ms[i] = AtFirst
      /\ \A i \in 3..Len(cxFile) : Means(ms[i - 1], cxFile[i], ms[i])
  BY <1>4 DEF Told, Meant
<1>7. Len(cxFile) \in Nat /\ scan.at \in 1..Len(cxFile)
  BY <1>1, <1>5, <1>6
<1>8. scan.at # 1
  <2>1. Record("v", Version).tag = "v"
    BY DEF Record
  <2> QED
    BY <1>1, <1>6, <1>7, <2>1
<1>9. ms[scan.at - 1] \in Meanings
  BY <1>6, <1>7
<1>10. scan.at = 2 => cxFile[scan.at] = Record("@", KeyList) /\ ms[1] = AtFirst /\ ms[2] = AtFirst
  BY <1>6, <1>7
<1>11. scan.at >= 3 => Means(ms[scan.at - 1], cxFile[scan.at], ms[scan.at])
  BY <1>6, <1>7
<1> QED
  BY <1>1, <1>2, <1>4, <1>5, <1>7, <1>8, <1>9, <1>10, <1>11

\* The tag of a record says what it means
LEMMA MeansByTag ==
    ASSUME NEW g, NEW rec, NEW h, Means(g, rec, h)
    PROVE  /\ rec.tag \notin {"v", "@"}
           /\ rec.tag \in NumberKeys => MeansNumber(g, rec, h)
           /\ rec.tag = ":" => MeansFile(g, rec, h)
           /\ rec.tag = "/" => MeansItem(g, rec, h)
           /\ rec.tag = "r" => MeansReference(g, rec, h)
<1>1. "v" \notin NumberKeys /\ "@" \notin NumberKeys /\ ":" \notin NumberKeys /\ "/" \notin NumberKeys /\ "r" \notin NumberKeys
  BY DEF NumberKeys, NumberTags, KeyList
<1>2. MeansNumber(g, rec, h) => rec.tag \in NumberKeys
  BY DEF MeansNumber
<1>3. MeansFile(g, rec, h) => rec.tag = ":"
  BY DEF MeansFile
<1>4. MeansItem(g, rec, h) => rec.tag = "/"
  BY DEF MeansItem
<1>5. MeansReference(g, rec, h) => rec.tag = "r"
  BY DEF MeansReference
<1> QED
  BY <1>1, <1>2, <1>3, <1>4, <1>5 DEF Means

\* A record of these tags comes after the first two
LEMMA ThirdOrLater ==
    ASSUME KInv, NEW tags, Scans(tags), "v" \notin tags, "@" \notin tags
    PROVE  /\ status = "scanning" /\ deleted = {} /\ Sound(table, know, {}, refs)
           /\ cxFile[scan.at].tag \in tags
           /\ \E ms : /\ Told(cxFile, ms, saved) /\ scan.at \in 1..Len(cxFile) /\ scan.at >= 3
                      /\ FollowsIn(scan, table, know, refs, ms[scan.at - 1]) /\ ms[scan.at - 1] \in Meanings
                      /\ Means(ms[scan.at - 1], cxFile[scan.at], ms[scan.at])
<1>1. /\ status = "scanning" /\ deleted = {} /\ Sound(table, know, {}, refs)
      /\ cxFile[scan.at].tag \in tags
      /\ \E ms : /\ Told(cxFile, ms, saved) /\ scan.at \in 1..Len(cxFile) /\ scan.at >= 2
                 /\ FollowsIn(scan, table, know, refs, ms[scan.at - 1]) /\ ms[scan.at - 1] \in Meanings
                 /\ scan.at = 2 => cxFile[scan.at] = Record("@", KeyList) /\ ms[1] = AtFirst /\ ms[2] = AtFirst
                 /\ scan.at >= 3 => Means(ms[scan.at - 1], cxFile[scan.at], ms[scan.at])
  BY ReadsNow
<1>2. Record("@", KeyList).tag = "@"
  BY DEF Record
<1>3. cxFile[scan.at] # Record("@", KeyList)
  BY <1>1, <1>2
<1>4. PICK ms : /\ Told(cxFile, ms, saved) /\ scan.at \in 1..Len(cxFile) /\ scan.at >= 2
                /\ FollowsIn(scan, table, know, refs, ms[scan.at - 1]) /\ ms[scan.at - 1] \in Meanings
                /\ scan.at = 2 => cxFile[scan.at] = Record("@", KeyList) /\ ms[1] = AtFirst /\ ms[2] = AtFirst
                /\ scan.at >= 3 => Means(ms[scan.at - 1], cxFile[scan.at], ms[scan.at])
  BY <1>1
<1>5. scan.at >= 3
  BY <1>3, <1>4
<1> QED
  BY <1>1, <1>4, <1>5

LEMMA ScanVersionStep ==
    ASSUME KInv, ScanVersion
    PROVE  Server' /\ SavedTyped' /\ Snapshot' /\ Shown
<1>1. /\ status = "scanning" /\ scan.at <= Len(cxFile) /\ cxFile[scan.at].tag = "v"
      /\ status' = IF cxFile[scan.at].data = Version THEN "scanning" ELSE "open"
      /\ scan' = NextRecord(scan)
      /\ UNCHANGED <<table, count, deleted, know, refs, cxFile, saved>>
  BY DEF ScanVersion, Scans, Scanned, Onwards, NextRecord, tables
<1>2. deleted = {} /\ Sound(table, know, {}, refs)
  BY <1>1 DEF KInv, Server
<1>3. CASE OldSnapshot
  <2>1. cxFile = OldVersion /\ scan.at = 1 /\ refs = {} /\ know = Zeros /\ saved = NothingSaved
    BY <1>1, <1>3 DEF OldSnapshot
  <2>2. cxFile[scan.at] = Record("v", Version - 1)
    BY <2>1 DEF OldVersion
  <2>3. cxFile[scan.at].data = Version - 1 /\ Version - 1 # Version
    BY <2>2 DEF Record, Version
  <2>4. status' = "open" /\ deleted' = {}
    BY <1>1, <1>2, <2>3
  <2>5. saved.refs = {} /\ \A f \in Names : saved.know[f] = 0
    BY <2>1 DEF NothingSaved
  <2>6. RefsIn(table', refs') = {} /\ KnowIn(table', know') \in [Names -> Times] /\ \A f \in Names : KnowIn(table', know')[f] = 0
    BY <1>1, <2>1, NothingIn
  <2>7. SavedTyped
    BY DEF KInv
  <2>8. Shown
    BY <1>1, <2>4, <2>5, <2>6, <2>7, LoadStep
  <2>9. SavedTyped' /\ Snapshot'
    BY <1>1, <2>4, SnapshotStays DEF KInv
  <2>10. Server'
    BY <1>1, <1>2, <2>4 DEF Server
  <2> QED
    BY <2>8, <2>9, <2>10
<1>4. ASSUME NEW ms, Told(cxFile, ms, saved), Reads(ms)
      PROVE  Server' /\ SavedTyped' /\ Snapshot' /\ Shown
  <2>1. scan.at \in 1..(Len(cxFile) + 1) /\ FollowsIn(scan, table, know, refs, ms[scan.at - 1])
    BY <1>1, <1>4 DEF Reads
  <2>2. /\ cxFile \in Seq(Records)
        /\ Len(cxFile) >= 1 => cxFile[1] = Record("v", Version)
        /\ Len(cxFile) >= 2 => cxFile[2] = Record("@", KeyList)
        /\ \A i \in 0..Len(cxFile) : i <= 2 => ms[i] = AtFirst
        /\ \A i \in 3..Len(cxFile) : Means(ms[i - 1], cxFile[i], ms[i])
    BY <1>4 DEF Told, Meant
  <2>3. Len(cxFile) \in Nat /\ scan.at \in 1..Len(cxFile)
    BY <1>1, <2>1, <2>2
  <2>4. scan.at = 1
    <3>1. CASE scan.at = 2
      <4>1. Record("@", KeyList).tag = "@"
        BY DEF Record
      <4> QED
        BY <1>1, <2>2, <2>3, <3>1, <4>1
    <3>2. CASE scan.at >= 3
      <4>1. Means(ms[scan.at - 1], cxFile[scan.at], ms[scan.at])
        BY <2>2, <2>3, <3>2
      <4> QED
        BY <1>1, <4>1, MeansByTag
    <3> QED
      BY <2>3, <3>1, <3>2
  <2>5. cxFile[scan.at].data = Version /\ ms[0] = AtFirst /\ ms[1] = AtFirst
    BY <2>2, <2>3, <2>4 DEF Record
  <2>6. status' = "scanning" /\ deleted' = {}
    BY <1>1, <1>2, <2>5
  <2>7. FollowsIn(scan, table, know, refs, AtFirst)
    BY <2>1, <2>4, <2>5
  <2>8. FollowsIn(NextRecord(scan), table, know, refs, AtFirst) /\ NextRecord(scan).at = 2
    <3>1. /\ NextRecord(scan) = [at |-> scan.at + 1, used |-> scan.used, last |-> scan.last, mapping |-> scan.mapping, item |-> scan.item]
          /\ scan.used \subseteq NumberTags /\ scan.last \in [NumberTags -> Nat]
          /\ scan.mapping \in [Slots -> Slots] /\ scan.item \in ItemsOf(table) \cup {NoItem}
      BY <2>7, ScanFields
    <3>2. scan.at + 1 = 2 /\ 2 \in Nat \ {0} /\ (2 >= 3 => NumberKeys \subseteq scan.used)
      BY <2>4
    <3>3. /\ scan.last = AtFirst.last
          /\ \A n \in Slots : AtFirst.named[n] # Empty => table[scan.mapping[n]] = AtFirst.named[n]
          /\ AtFirst.item # NoItem => scan.item \in ItemsOf(table) /\ ItemNamed(table, scan.item) = AtFirst.item
          /\ RefsIn(table, refs) = AtFirst.refs /\ \A f \in Names : KnowIn(table, know)[f] = AtFirst.know[f]
      BY <2>7, FollowsFacts
    <3>4. FollowsIn([at |-> 2, used |-> scan.used, last |-> scan.last, mapping |-> scan.mapping, item |-> scan.item],
                    table, know, refs, AtFirst)
      BY <3>1, <3>2, <3>3, ScanIs
    <3> QED
      BY <3>1, <3>2, <3>4
  <2>9. FollowsIn(scan', table', know', refs', ms[scan.at]) /\ scan'.at = scan.at + 1
    BY <1>1, <2>4, <2>5, <2>8
  <2>10. Sound(table', know', {}, refs')
    BY <1>1, <1>2
  <2> QED
    BY <1>1, <1>4, <2>3, <2>6, <2>9, <2>10, ReadOn
<1> QED
  BY <1>3, <1>4 DEF KInv, Snapshot

LEMMA ScanKeysStep ==
    ASSUME KInv, ScanKeys
    PROVE  Server' /\ SavedTyped' /\ Snapshot' /\ Shown
<1>1. /\ Scans({"@"}) /\ UNCHANGED <<status, table, count, deleted, know, refs, cxFile, saved>>
      /\ scan' = [NextRecord(scan) EXCEPT !.used = @ \cup cxFile[scan.at].data]
  BY DEF ScanKeys, Scanned, Onwards, NextRecord, tables
<1>2. "v" \notin {"@"}
  OBVIOUS
<1>3. /\ status = "scanning" /\ deleted = {} /\ Sound(table, know, {}, refs)
      /\ cxFile[scan.at].tag = "@"
      /\ \E ms : /\ Told(cxFile, ms, saved) /\ scan.at \in 1..Len(cxFile) /\ scan.at >= 2
                 /\ FollowsIn(scan, table, know, refs, ms[scan.at - 1]) /\ ms[scan.at - 1] \in Meanings
                 /\ scan.at = 2 => cxFile[scan.at] = Record("@", KeyList) /\ ms[1] = AtFirst /\ ms[2] = AtFirst
                 /\ scan.at >= 3 => Means(ms[scan.at - 1], cxFile[scan.at], ms[scan.at])
  BY <1>1, <1>2, ReadsNow
<1>4. PICK ms : /\ Told(cxFile, ms, saved) /\ scan.at \in 1..Len(cxFile) /\ scan.at >= 2
                /\ FollowsIn(scan, table, know, refs, ms[scan.at - 1]) /\ ms[scan.at - 1] \in Meanings
                /\ scan.at = 2 => cxFile[scan.at] = Record("@", KeyList) /\ ms[1] = AtFirst /\ ms[2] = AtFirst
                /\ scan.at >= 3 => Means(ms[scan.at - 1], cxFile[scan.at], ms[scan.at])
  BY <1>3
<1>5. scan.at = 2
  <2>1. scan.at >= 3 => cxFile[scan.at].tag # "@"
    BY <1>4, MeansByTag
  <2> QED
    BY <1>3, <1>4, <2>1
<1>6. cxFile[scan.at].data = KeyList
  BY <1>4, <1>5 DEF Record
<1> DEFINE used == scan.used \cup KeyList
<1>7. FollowsIn(scan, table, know, refs, AtFirst)
  BY <1>4, <1>5
<1>8. /\ NextRecord(scan) = [at |-> scan.at + 1, used |-> scan.used, last |-> scan.last, mapping |-> scan.mapping, item |-> scan.item]
      /\ scan.used \subseteq NumberTags /\ scan.last \in [NumberTags -> Nat]
      /\ scan.mapping \in [Slots -> Slots] /\ scan.item \in ItemsOf(table) \cup {NoItem}
  BY <1>7, ScanFields
<1>9. scan' = [at |-> 3, used |-> used, last |-> scan.last, mapping |-> scan.mapping, item |-> scan.item]
  <2>1. scan' = [NextRecord(scan) EXCEPT !.used = @ \cup KeyList]
    BY <1>1, <1>6
  <2>2. [NextRecord(scan) EXCEPT !.used = @ \cup KeyList]
          = [at |-> scan.at + 1, used |-> used, last |-> scan.last, mapping |-> scan.mapping, item |-> scan.item]
    <3> DEFINE o == NextRecord(scan)
    <3>1. o = [at |-> scan.at + 1, used |-> scan.used, last |-> scan.last, mapping |-> scan.mapping, item |-> scan.item]
      BY <1>8
    <3> HIDE DEF o
    <3>2. [o EXCEPT !.used = @ \cup KeyList]
            = [at |-> scan.at + 1, used |-> scan.used \cup KeyList, last |-> scan.last, mapping |-> scan.mapping, item |-> scan.item]
      BY <3>1
    <3> QED
      BY <3>2 DEF o
  <2>3. scan.at + 1 = 3
    BY <1>5
  <2> HIDE DEF used
  <2> QED
    BY <2>1, <2>2, <2>3
<1>10. used \subseteq NumberTags /\ NumberKeys \subseteq used
  BY <1>8 DEF NumberTags, NumberKeys
<1> HIDE DEF used
<1>11. /\ scan.last = AtFirst.last
       /\ \A n \in Slots : AtFirst.named[n] # Empty => table[scan.mapping[n]] = AtFirst.named[n]
       /\ AtFirst.item # NoItem => scan.item \in ItemsOf(table) /\ ItemNamed(table, scan.item) = AtFirst.item
       /\ RefsIn(table, refs) = AtFirst.refs /\ \A f \in Names : KnowIn(table, know)[f] = AtFirst.know[f]
  BY <1>7, FollowsFacts
<1>12. 3 \in Nat \ {0} /\ (3 >= 3 => NumberKeys \subseteq used) /\ used \in SUBSET NumberTags
  BY <1>10
<1>13. FollowsIn([at |-> 3, used |-> used, last |-> scan.last, mapping |-> scan.mapping, item |-> scan.item],
                 table, know, refs, AtFirst)
  BY <1>8, <1>11, <1>12, ScanIs
<1>14. FollowsIn(scan', table', know', refs', ms[scan.at]) /\ scan'.at = scan.at + 1
  <2>1. UNCHANGED <<table, know, refs>>
    BY <1>1
  <2>2. scan'.at = 3
    BY <1>9
  <2>3. FollowsIn(scan', table, know, refs, AtFirst)
    BY <1>9, <1>13
  <2> QED
    BY <1>4, <1>5, <2>1, <2>2, <2>3
<1>15. status' = "scanning" /\ deleted' = {} /\ Sound(table', know', {}, refs')
  BY <1>1, <1>3
<1> QED
  BY <1>1, <1>3, <1>4, <1>14, <1>15, ReadOn

LEMMA ScanNumberStep ==
    ASSUME KInv, ScanNumber
    PROVE  Server' /\ SavedTyped' /\ Snapshot' /\ Shown
<1> DEFINE rec == cxFile[scan.at]
<1>1. /\ Scans(NumberKeys) /\ UNCHANGED <<status, table, count, deleted, know, refs, cxFile, saved>>
      /\ scan' = IF rec.tag \in scan.used THEN [NextRecord(scan) EXCEPT !.last[rec.tag] = rec.data] ELSE NextRecord(scan)
  BY DEF ScanNumber, Scanned, Onwards, NextRecord, tables, NumberKeys
<1>2. "v" \notin NumberKeys /\ "@" \notin NumberKeys
  BY DEF NumberKeys, NumberTags, KeyList
<1>3. /\ status = "scanning" /\ deleted = {} /\ Sound(table, know, {}, refs)
      /\ rec.tag \in NumberKeys
      /\ \E ms : /\ Told(cxFile, ms, saved) /\ scan.at \in 1..Len(cxFile) /\ scan.at >= 3
                 /\ FollowsIn(scan, table, know, refs, ms[scan.at - 1]) /\ ms[scan.at - 1] \in Meanings
                 /\ Means(ms[scan.at - 1], rec, ms[scan.at])
  BY <1>1, <1>2, ThirdOrLater
<1>4. PICK ms : /\ Told(cxFile, ms, saved) /\ scan.at \in 1..Len(cxFile) /\ scan.at >= 3
                /\ FollowsIn(scan, table, know, refs, ms[scan.at - 1]) /\ ms[scan.at - 1] \in Meanings
                /\ Means(ms[scan.at - 1], rec, ms[scan.at])
  BY <1>3
<1> HIDE DEF rec
<1>5. MeansNumber(ms[scan.at - 1], rec, ms[scan.at])
  BY <1>3, <1>4, MeansByTag
<1>6. NumberKeys \subseteq scan.used
  BY <1>4, FollowsFacts
<1>7. scan' = [NextRecord(scan) EXCEPT !.last[rec.tag] = rec.data]
  BY <1>1, <1>3, <1>6
<1>8. FollowsIn([NextRecord(scan) EXCEPT !.last[rec.tag] = rec.data], table, know, refs, ms[scan.at])
  BY <1>4, <1>5, NumberRead
<1>9. [NextRecord(scan) EXCEPT !.last[rec.tag] = rec.data].at = scan.at + 1
  <2>1. NextRecord(scan) = [at |-> scan.at + 1, used |-> scan.used, last |-> scan.last, mapping |-> scan.mapping, item |-> scan.item]
    BY <1>4, ScanFields
  <2> QED
    BY <2>1
<1>10. FollowsIn(scan', table', know', refs', ms[scan.at]) /\ scan'.at = scan.at + 1
  BY <1>1, <1>7, <1>8, <1>9
<1>11. status' = "scanning" /\ deleted' = {} /\ Sound(table', know', {}, refs')
  BY <1>1, <1>3
<1> QED
  BY <1>1, <1>3, <1>4, <1>10, <1>11, ReadOn

LEMMA ScanFileNameStep ==
    ASSUME KInv, NEW name \in Named, ScanFileName(name)
    PROVE  Server' /\ SavedTyped' /\ Snapshot' /\ Shown
<1> DEFINE rec == cxFile[scan.at]
           p == Position(table, name)
           news == KnownThen(scan, know, p)
           then == NumberedThen(scan, p)
           new == [table EXCEPT ![p] = name]
<1>1. /\ Scans({":"}) /\ rec.data = name /\ UNCHANGED <<cxFile, saved>> /\ scan' = then
      /\ Exists(table, name) => know' = news /\ UNCHANGED <<status, table, count, deleted, refs>>
      /\ ~Exists(table, name) /\ Overflows(count + 1) => Down
      /\ ~Exists(table, name) /\ ~Overflows(count + 1) =>
           table' = new /\ know' = news /\ UNCHANGED <<status, deleted, refs>>
  BY DEF ScanFileName, Scanned, Onwards, NextRecord, NumberOf, KnownThen, NumberedThen
<1>2. "v" \notin {":"} /\ "@" \notin {":"}
  OBVIOUS
<1>3. /\ status = "scanning" /\ deleted = {} /\ Sound(table, know, {}, refs)
      /\ rec.tag = ":"
      /\ \E ms : /\ Told(cxFile, ms, saved) /\ scan.at \in 1..Len(cxFile) /\ scan.at >= 3
                 /\ FollowsIn(scan, table, know, refs, ms[scan.at - 1]) /\ ms[scan.at - 1] \in Meanings
                 /\ Means(ms[scan.at - 1], rec, ms[scan.at])
  BY <1>1, <1>2, ThirdOrLater
<1>4. PICK ms : /\ Told(cxFile, ms, saved) /\ scan.at \in 1..Len(cxFile) /\ scan.at >= 3
                /\ FollowsIn(scan, table, know, refs, ms[scan.at - 1]) /\ ms[scan.at - 1] \in Meanings
                /\ Means(ms[scan.at - 1], rec, ms[scan.at])
  BY <1>3
<1> HIDE DEF rec
<1>5. MeansFile(ms[scan.at - 1], rec, ms[scan.at])
  BY <1>3, <1>4, MeansByTag
<1>6. /\ p \in Slots /\ (Exists(table, name) => table[p] = name)
      /\ ~Exists(table, name) => table[p] = Empty /\ \A n \in Slots : table[n] # name
  BY <1>3, PositionIs DEF KInv
<1>7. then.at = scan.at + 1
  <2>1. NextRecord(scan) = [at |-> scan.at + 1, used |-> scan.used, last |-> scan.last, mapping |-> scan.mapping, item |-> scan.item]
    BY <1>4, ScanFields
  <2> QED
    BY <2>1 DEF NumberedThen
<1> HIDE DEF p
<1>8. CASE Exists(table, name)
  <2>1. Sound(table, news, {}, refs) /\ FollowsIn(then, table, news, refs, ms[scan.at])
    BY <1>1, <1>3, <1>4, <1>5, <1>6, <1>8, FileRead
  <2> HIDE DEF news, then
  <2>2. /\ FollowsIn(scan', table', know', refs', ms[scan.at]) /\ scan'.at = scan.at + 1
        /\ status' = "scanning" /\ deleted' = {} /\ Sound(table', know', {}, refs')
    BY <1>1, <1>3, <1>7, <1>8, <2>1
  <2> QED
    BY <1>1, <1>3, <1>4, <2>2, ReadOn
<1>9. CASE ~Exists(table, name) /\ Overflows(count + 1)
  <2>1. status' # "scanning" /\ Down
    BY <1>1, <1>9 DEF Down
  <2> QED
    BY <1>1, <1>3, <2>1, DownStep, SnapshotStays DEF KInv
<1>10. CASE ~Exists(table, name) /\ ~Overflows(count + 1)
  <2>1. Sound(new, know, {}, refs) /\ FollowsIn(scan, new, know, refs, ms[scan.at - 1])
    BY <1>3, <1>4, <1>6, <1>10, NameRead
  <2>2. new[p] = name
    BY <1>3, <1>6 DEF Sound, Table
  <2> HIDE DEF new
  <2>3. Sound(new, news, {}, refs) /\ FollowsIn(then, new, news, refs, ms[scan.at])
    BY <1>1, <1>4, <1>5, <1>6, <2>1, <2>2, FileRead
  <2> HIDE DEF news, then
  <2>4. /\ FollowsIn(scan', table', know', refs', ms[scan.at]) /\ scan'.at = scan.at + 1
        /\ status' = "scanning" /\ deleted' = {} /\ Sound(table', know', {}, refs')
    BY <1>1, <1>3, <1>7, <1>10, <2>3
  <2> QED
    BY <1>1, <1>3, <1>4, <2>4, ReadOn
<1> QED
  BY <1>8, <1>9, <1>10

LEMMA ScanSymbolNameStep ==
    ASSUME KInv, ScanSymbolName
    PROVE  Server' /\ SavedTyped' /\ Snapshot' /\ Shown
<1> DEFINE rec == cxFile[scan.at]
           include == scan.mapping[scan.last["d"]]
           then == [NextRecord(scan) EXCEPT !.item = Item(scan.last["t"], rec.data, "global", include)]
<1>1. /\ Scans({"/"}) /\ UNCHANGED <<table, count, deleted, know, refs, cxFile, saved>>
      /\ table[include] # Empty => scan' = then /\ UNCHANGED status
  BY DEF ScanSymbolName, Scanned, Onwards, NextRecord, tables
<1>2. "v" \notin {"/"} /\ "@" \notin {"/"}
  OBVIOUS
<1>3. /\ status = "scanning" /\ deleted = {} /\ Sound(table, know, {}, refs)
      /\ rec.tag = "/"
      /\ \E ms : /\ Told(cxFile, ms, saved) /\ scan.at \in 1..Len(cxFile) /\ scan.at >= 3
                 /\ FollowsIn(scan, table, know, refs, ms[scan.at - 1]) /\ ms[scan.at - 1] \in Meanings
                 /\ Means(ms[scan.at - 1], rec, ms[scan.at])
  BY <1>1, <1>2, ThirdOrLater
<1>4. PICK ms : /\ Told(cxFile, ms, saved) /\ scan.at \in 1..Len(cxFile) /\ scan.at >= 3
                /\ FollowsIn(scan, table, know, refs, ms[scan.at - 1]) /\ ms[scan.at - 1] \in Meanings
                /\ Means(ms[scan.at - 1], rec, ms[scan.at])
  BY <1>3
<1> HIDE DEF rec
<1>5. MeansItem(ms[scan.at - 1], rec, ms[scan.at])
  BY <1>3, <1>4, MeansByTag
<1>6. table[include] # Empty /\ FollowsIn(then, table, know, refs, ms[scan.at])
  BY <1>3, <1>4, <1>5, ItemRead
<1> HIDE DEF include
<1>7. then.at = scan.at + 1
  <2>1. NextRecord(scan) = [at |-> scan.at + 1, used |-> scan.used, last |-> scan.last, mapping |-> scan.mapping, item |-> scan.item]
    BY <1>4, ScanFields
  <2> QED
    BY <2>1
<1> HIDE DEF then
<1>8. /\ FollowsIn(scan', table', know', refs', ms[scan.at]) /\ scan'.at = scan.at + 1
      /\ status' = "scanning" /\ deleted' = {} /\ Sound(table', know', {}, refs')
  BY <1>1, <1>3, <1>6, <1>7
<1> QED
  BY <1>1, <1>3, <1>4, <1>8, ReadOn

LEMMA ScanReferenceStep ==
    ASSUME KInv, ScanReference
    PROVE  Server' /\ SavedTyped' /\ Snapshot' /\ Shown
<1> DEFINE rec == cxFile[scan.at]
           r == [item |-> scan.item, file |-> scan.mapping[scan.last["f"]], line |-> scan.last["l"], usage |-> scan.last["u"]]
           more == Added(refs, r)
<1>1. /\ Scans({"r"}) /\ UNCHANGED <<status, table, count, deleted, know, cxFile, saved>>
      /\ refs' = more /\ scan' = NextRecord(scan)
  BY DEF ScanReference, Scanned, Onwards, NextRecord
<1>2. "v" \notin {"r"} /\ "@" \notin {"r"}
  OBVIOUS
<1>3. /\ status = "scanning" /\ deleted = {} /\ Sound(table, know, {}, refs)
      /\ rec.tag = "r"
      /\ \E ms : /\ Told(cxFile, ms, saved) /\ scan.at \in 1..Len(cxFile) /\ scan.at >= 3
                 /\ FollowsIn(scan, table, know, refs, ms[scan.at - 1]) /\ ms[scan.at - 1] \in Meanings
                 /\ Means(ms[scan.at - 1], rec, ms[scan.at])
  BY <1>1, <1>2, ThirdOrLater
<1>4. PICK ms : /\ Told(cxFile, ms, saved) /\ scan.at \in 1..Len(cxFile) /\ scan.at >= 3
                /\ FollowsIn(scan, table, know, refs, ms[scan.at - 1]) /\ ms[scan.at - 1] \in Meanings
                /\ Means(ms[scan.at - 1], rec, ms[scan.at])
  BY <1>3
<1> HIDE DEF rec
<1>5. MeansReference(ms[scan.at - 1], rec, ms[scan.at])
  BY <1>3, <1>4, MeansByTag
<1>6. Sound(table, know, {}, more) /\ FollowsIn(NextRecord(scan), table, know, more, ms[scan.at])
  BY <1>3, <1>4, <1>5, ReferenceRead
<1> HIDE DEF r, more
<1>7. NextRecord(scan).at = scan.at + 1
  <2>1. NextRecord(scan) = [at |-> scan.at + 1, used |-> scan.used, last |-> scan.last, mapping |-> scan.mapping, item |-> scan.item]
    BY <1>4, ScanFields
  <2> QED
    BY <2>1
<1>8. /\ FollowsIn(scan', table', know', refs', ms[scan.at]) /\ scan'.at = scan.at + 1
      /\ status' = "scanning" /\ deleted' = {} /\ Sound(table', know', {}, refs')
  BY <1>1, <1>3, <1>6, <1>7
<1> QED
  BY <1>1, <1>3, <1>4, <1>8, ReadOn

LEMMA EndScanStep ==
    ASSUME KInv, EndScan
    PROVE  Server' /\ SavedTyped' /\ Snapshot' /\ Shown
<1>1. /\ status = "scanning" /\ scan.at > Len(cxFile) /\ status' = "open"
      /\ UNCHANGED <<table, count, deleted, know, refs, cxFile, saved>>
  BY DEF EndScan, tables
<1>2. deleted = {} /\ Sound(table, know, {}, refs)
  BY <1>1 DEF KInv, Server
<1>3. ~OldSnapshot
  <2> SUFFICES ASSUME OldSnapshot PROVE FALSE
    OBVIOUS
  <2>1. cxFile = OldVersion /\ scan.at = 1
    BY <1>1 DEF OldSnapshot
  <2>2. Len(OldVersion) = 3
    BY DEF OldVersion
  <2> QED
    BY <1>1, <2>1, <2>2
<1>4. PICK ms : Told(cxFile, ms, saved) /\ Reads(ms)
  BY <1>3 DEF KInv, Snapshot
<1>5. scan.at \in 1..(Len(cxFile) + 1) /\ FollowsIn(scan, table, know, refs, ms[scan.at - 1])
  BY <1>1, <1>4 DEF Reads
<1>6. cxFile \in Seq(Records) /\ Parts(cxFile, ms, saved)
  BY <1>4 DEF Told, Meant
<1> DEFINE g == ms[Len(cxFile)]
<1>7. Len(cxFile) \in Nat /\ scan.at - 1 = Len(cxFile)
  BY <1>1, <1>5, <1>6
<1>8. Part(g, saved) /\ RefsIn(table, refs) = g.refs /\ \A f \in Names : KnowIn(table, know)[f] = g.know[f]
  <2>1. FollowsIn(scan, table, know, refs, g)
    BY <1>5, <1>7
  <2>2. Part(g, saved)
    BY <1>6, <1>7 DEF Parts
  <2> HIDE DEF g
  <2> QED
    BY <2>1, <2>2, FollowsFacts
<1>9. saved.whole => g.refs = saved.refs /\ \A f \in Names : g.know[f] = saved.know[f]
  BY <1>4 DEF Told
<1> HIDE DEF g
<1>10. KnowIn(table, know) \in [Names -> Times]
  BY <1>2, KnowIs
<1>11. /\ RefsIn(table', refs') \subseteq saved.refs /\ KnowIn(table', know') \in [Names -> Times]
       /\ \A f \in Names : KnowIn(table', know')[f] \in {0, saved.know[f]}
       /\ saved.whole => /\ RefsIn(table', refs') = saved.refs
                         /\ \A f \in Names : KnowIn(table', know')[f] = saved.know[f]
  BY <1>1, <1>8, <1>9, <1>10 DEF Part
<1>12. deleted' = {} /\ UNCHANGED saved /\ SavedTyped
  BY <1>1, <1>2 DEF KInv
<1>13. Shown
  BY <1>1, <1>11, <1>12, LoadStep
<1>14. SavedTyped' /\ Snapshot'
  BY <1>1, SnapshotStays DEF KInv
<1>15. Server'
  BY <1>1, <1>2, <1>12 DEF Server
<1> QED
  BY <1>13, <1>14, <1>15

\* What is cut short means, as far as it goes, the same
LEMMA PrefixMeant ==
    ASSUME NEW file, NEW ms, NEW kept, Meant(file, ms), Parts(file, ms, kept), NEW n \in 0..Len(file)
    PROVE  Meant(SubSeq(file, 1, n), ms) /\ Parts(SubSeq(file, 1, n), ms, kept)
<1> DEFINE cut == SubSeq(file, 1, n)
<1>1. file \in Seq(Records)
  BY DEF Meant
<1>2. Len(file) \in Nat /\ n \in Nat /\ n <= Len(file)
  BY <1>1
<1>3. cut \in Seq(Records) /\ Len(cut) = n /\ \A i \in 1..n : cut[i] = file[i]
  BY <1>1, <1>2
<1> HIDE DEF cut
<1>4. /\ \A i \in 0..n : i \in 0..Len(file)
      /\ \A i \in 3..n : i \in 3..Len(file) /\ i \in 1..n
      /\ (n >= 1 => Len(file) >= 1 /\ 1 \in 1..n) /\ (n >= 2 => Len(file) >= 2 /\ 2 \in 1..n)
  BY <1>2
<1>5. /\ (Len(file) >= 1 => file[1] = Record("v", Version)) /\ (Len(file) >= 2 => file[2] = Record("@", KeyList))
      /\ \A i \in 0..Len(file) : ms[i] \in Meanings
      /\ \A i \in 0..Len(file) : i <= 2 => ms[i] = AtFirst
      /\ \A i \in 3..Len(file) : Means(ms[i - 1], file[i], ms[i])
  BY DEF Meant
<1>6. \A i \in 3..n : Means(ms[i - 1], cut[i], ms[i])
  BY <1>3, <1>4, <1>5
<1>7. (n >= 1 => cut[1] = Record("v", Version)) /\ (n >= 2 => cut[2] = Record("@", KeyList))
  BY <1>3, <1>4, <1>5
<1>8. Meant(cut, ms)
  BY <1>3, <1>4, <1>5, <1>6, <1>7 DEF Meant
<1>9. Parts(cut, ms, kept)
  BY <1>3, <1>4 DEF Parts
<1> QED
  BY <1>8, <1>9 DEF cut

LEMMA SavedKept ==
    ASSUME NEW whole
    PROVE  /\ Saved(whole) = [refs |-> {r \in RefsByName : r.item.visibility = "global"},
                              know |-> [f \in Names |-> IF f \in GoneByName THEN 0 ELSE KnowByName[f]],
                              whole |-> whole]
           /\ Saved(whole).whole = whole
BY DEF Saved

LEMMA SavedIsTyped ==
    ASSUME Sound(table, know, deleted, refs), NEW whole \in BOOLEAN
    PROVE  Saved(whole).know \in [Names -> Times] /\ Saved(whole).whole \in BOOLEAN
<1>1. KnowIn(table, know) \in [Names -> Times]
  BY KnowIs
<1>2. Saved(whole).know = [f \in Names |-> IF f \in GoneIn(table, deleted) THEN 0 ELSE KnowIn(table, know)[f]]
  BY SavedIs
<1>3. Saved(whole).whole = whole
  BY SavedKept
<1>4. 0 \in Times
  BY ConstantsAre DEF Times
<1> HIDE DEF Saved
<1> QED
  BY <1>1, <1>2, <1>3, <1>4

LEMMA SaveStep ==
    ASSUME HeadersStay, KInv, Save
    PROVE  Server' /\ SavedTyped' /\ Snapshot' /\ Shown
<1>1. /\ status = "open" /\ cxFile' \in Written /\ saved' = Saved(TRUE)
      /\ UNCHANGED <<status, table, count, deleted, know, refs, scan>>
  BY DEF Save, Works, tables
<1>2. Sound(table, know, deleted, refs) /\ ServerSound
  BY <1>1 DEF KInv, Server, ServerSound
<1>3. Server'
  BY <1>1 DEF KInv, Server, Zeros, Slots
<1>4. SavedTyped'
  <2>1. Saved(TRUE).know \in [Names -> Times] /\ Saved(TRUE).whole \in BOOLEAN
    BY <1>2, SavedIsTyped
  <2> QED
    BY <1>1, <2>1 DEF SavedTyped
<1>5. Snapshot'
  <2>1. PICK g : /\ Tells(cxFile', g, Saved(TRUE)) /\ g.refs = Saved(TRUE).refs
                 /\ \A f \in Names : g.know[f] = Saved(TRUE).know[f]
    BY <1>1, <1>2, WrittenTells
  <2>2. PICK ms : Meant(cxFile', ms) /\ Parts(cxFile', ms, Saved(TRUE)) /\ ms[Len(cxFile')] = g
    BY <2>1 DEF Tells
  <2>3. Told(cxFile', ms, saved')
    BY <1>1, <2>1, <2>2 DEF Told
  <2>4. Reads(ms)'
    BY <1>1 DEF Reads
  <2> QED
    BY <2>3, <2>4 DEF Snapshot
<1>6. Promise!Save
  <2>1. Visible /\ Visible'
    BY <1>1 DEF Visible
  <2>2. RefsByName' = RefsByName /\ KnowByName' = KnowByName /\ GoneByName' = GoneByName
    BY <1>1 DEF RefsByName, KnowByName, GoneByName, Numbers, Slots
  <2>3. saved' = [refs |-> {r \in RefsByName : r.item.visibility = "global"},
                  know |-> [f \in Names |-> IF f \in GoneByName THEN 0 ELSE KnowByName[f]],
                  whole |-> TRUE]
    BY <1>1, SavedKept
  <2> QED
    BY <1>1, <2>1, <2>2, <2>3 DEF Promise!Save, Promise!Kept
<1> QED
  BY <1>3, <1>4, <1>5, <1>6 DEF Shown, Promise!Next

LEMMA CrashInSaveStep ==
    ASSUME HeadersStay, KInv, CrashInSave
    PROVE  Server' /\ SavedTyped' /\ Snapshot' /\ Shown
<1>1. /\ status = "open" /\ saved' = Saved(FALSE) /\ Down
      /\ \E records \in Written : \E n \in 0..(Len(records) - 1) : cxFile' = SubSeq(records, 1, n)
  BY DEF CrashInSave, Works
<1>2. Sound(table, know, deleted, refs) /\ ServerSound
  BY <1>1 DEF KInv, Server, ServerSound
<1>3. status' = "down" /\ deleted' = {} /\ refs' = {} /\ know' = Zeros
  BY <1>1 DEF Down, Blank, Zeros
<1>4. Server'
  BY <1>3 DEF Server, Zeros
<1>5. SavedTyped'
  <2>1. Saved(FALSE).know \in [Names -> Times] /\ Saved(FALSE).whole \in BOOLEAN
    BY <1>2, SavedIsTyped
  <2> QED
    BY <1>1, <2>1 DEF SavedTyped
<1>6. Snapshot'
  <2>0. PICK records \in Written : \E n \in 0..(Len(records) - 1) : cxFile' = SubSeq(records, 1, n)
    BY <1>1
  <2>1. PICK n \in 0..(Len(records) - 1) : cxFile' = SubSeq(records, 1, n)
    BY <2>0
  <2>2. PICK g : Tells(records, g, Saved(FALSE))
    BY <1>2, WrittenTells
  <2>3. PICK ms : Meant(records, ms) /\ Parts(records, ms, Saved(FALSE))
    BY <2>2 DEF Tells
  <2>4. n \in 0..Len(records)
    <3>1. Len(records) \in Nat
      BY <2>3 DEF Meant
    <3> QED
      BY <3>1
  <2>5. Meant(cxFile', ms) /\ Parts(cxFile', ms, Saved(FALSE))
    BY <2>1, <2>3, <2>4, PrefixMeant
  <2>6. ~saved'.whole
    BY <1>1, SavedKept
  <2>7. Told(cxFile', ms, saved')
    BY <1>1, <2>5, <2>6 DEF Told
  <2>8. Reads(ms)'
    BY <1>3 DEF Reads
  <2> QED
    BY <2>7, <2>8 DEF Snapshot
<1>7. Promise!CrashInSave
  <2>1. Visible /\ ~Visible'
    BY <1>1, <1>3 DEF Visible
  <2>2. GoneByName' = {}
    BY <1>3 DEF GoneByName
  <2>3. saved' = [refs |-> {r \in RefsByName : r.item.visibility = "global"},
                  know |-> [f \in Names |-> IF f \in GoneByName THEN 0 ELSE KnowByName[f]],
                  whole |-> FALSE]
    BY <1>1, SavedKept
  <2>4. Promise!Kept = [refs |-> {r \in RefsByName : r.item.visibility = "global"},
                        know |-> [f \in Names |-> IF f \in GoneByName THEN 0 ELSE KnowByName[f]],
                        whole |-> TRUE]
    BY <2>1 DEF Promise!Kept
  <2>5. saved' = [Promise!Kept EXCEPT !.whole = FALSE]
    <3> DEFINE r == {q \in RefsByName : q.item.visibility = "global"}
               t == [f \in Names |-> IF f \in GoneByName THEN 0 ELSE KnowByName[f]]
    <3>1. saved' = [refs |-> r, know |-> t, whole |-> FALSE] /\ Promise!Kept = [refs |-> r, know |-> t, whole |-> TRUE]
      BY <2>3, <2>4
    <3> HIDE DEF r, t
    <3>2. Promise!Kept \in [refs : {r}, know : {t}, whole : {TRUE}]
      BY <3>1
    <3>3. [Promise!Kept EXCEPT !.whole = FALSE] = [refs |-> r, know |-> t, whole |-> FALSE]
      <4> DEFINE k == Promise!Kept
      <4>1. k \in [refs : {r}, know : {t}, whole : {TRUE}]
        BY <3>2
      <4> HIDE DEF k
      <4> DEFINE m == [k EXCEPT !.whole = FALSE]
      <4>2. m \in [refs : {r}, know : {t}, whole : {FALSE}]
        BY <4>1
      <4> HIDE DEF m
      <4>3. m = [refs |-> r, know |-> t, whole |-> FALSE]
        BY <4>2
      <4> QED
        BY Zenon, <4>3 DEF k, m
    <3> QED
      BY Zenon, <3>1, <3>3
  <2> QED
    BY <1>1, <1>3, <2>1, <2>2, <2>5 DEF Promise!CrashInSave, Promise!Blank, Promise!Nothing
<1> QED
  BY <1>4, <1>5, <1>6, <1>7 DEF Shown, Promise!Next

LEMMA InitKnown == Init => KInv /\ Promise!Init
<1> SUFFICES ASSUME Init PROVE KInv /\ Promise!Init
  OBVIOUS
<1>1. status = "down" /\ deleted = {} /\ know = Zeros /\ refs = {} /\ cxFile \in {NoSnapshot, OldVersion} /\ saved = NothingSaved
  BY DEF Init, Zeros, OldVersion, NothingSaved
<1>2. Server
  BY <1>1 DEF Server
<1>3. SavedTyped
  <2>1. NothingSaved.know = [f \in Names |-> 0] /\ NothingSaved.whole = TRUE
    BY DEF NothingSaved
  <2>2. 0 \in Times
    BY ConstantsAre DEF Times
  <2> QED
    BY <1>1, <2>1, <2>2 DEF SavedTyped
<1>4. Snapshot
  BY <1>1 DEF Snapshot, OldSnapshot
<1>5. ~Visible /\ GoneByName = {}
  BY <1>1 DEF Visible, GoneByName
<1>6. Promise!Init
  BY <1>1, <1>5 DEF Promise!Init, Promise!Nothing, NothingSaved
<1> QED
  BY <1>2, <1>3, <1>4, <1>6, InitHolds DEF KInv

LEMMA SameStep ==
    ASSUME KInv, UNCHANGED vars
    PROVE  Server' /\ SavedTyped' /\ Snapshot' /\ Shown
<1>1. UNCHANGED <<status, table, count, deleted, know, refs, cxFile, scan, saved>>
  BY DEF vars, tables
<1>2. Server'
  BY <1>1 DEF KInv, Server, Zeros, Slots
<1>3. SavedTyped'
  BY <1>1 DEF KInv, SavedTyped
<1>4. Snapshot'
  <2>1. CASE OldSnapshot
    BY <1>1, <2>1 DEF Snapshot, OldSnapshot, Zeros, Slots
  <2>2. CASE \E ms : Told(cxFile, ms, saved) /\ Reads(ms)
    <3>1. PICK ms : Told(cxFile, ms, saved) /\ Reads(ms)
      BY <2>2
    <3>2. Told(cxFile', ms, saved')
      BY <1>1, <3>1
    <3>3. Reads(ms)'
      BY <1>1, <3>1 DEF Reads
    <3> QED
      BY <3>2, <3>3 DEF Snapshot
  <2> QED
    BY <2>1, <2>2 DEF KInv, Snapshot
<1>5. UNCHANGED (Promise!vars)
  BY <1>1 DEF Promise!vars, Visible, RefsByName, KnowByName, GoneByName, Numbers, Slots
<1> QED
  BY <1>2, <1>3, <1>4, <1>5 DEF Shown

LEMMA NextKnown ==
    ASSUME HeadersStay, KInv, [Next]_vars
    PROVE  KInv' /\ Shown
<1> DEFINE Right == Server' /\ SavedTyped' /\ Snapshot' /\ Shown
<1>1. IInv'
  BY NextHolds DEF KInv
<1>2. ASSUME Start PROVE Right
  BY <1>2, StartStep
<1>3. ASSUME Stop PROVE Right
  BY <1>3, StopStep
<1>4. ASSUME Save PROVE Right
  BY <1>4, SaveStep
<1>5. ASSUME CrashInSave PROVE Right
  BY <1>5, CrashInSaveStep
<1>6. ASSUME NEW name \in Names, AddFileName(name) PROVE Right
  BY <1>6, AddFileNameStep
<1>7. ASSUME NEW n \in Slots, RemoveFile(n) PROVE Right
  BY <1>7, RemoveFileStep
<1>8. ASSUME NEW n \in Slots, BeginParse(n) PROVE Right
  BY <1>8, BeginParseStep
<1>9. ASSUME NEW r \in [item : Items, file : Slots, line : Lines, usage : Usages], AddReference(r) PROVE Right
  BY <1>9, AddReferenceStep
<1>10. ASSUME NEW name \in Names \cup {NoFileName}, ScanFileName(name) PROVE Right
  BY <1>10, ScanFileNameStep DEF Named
<1>11. ASSUME LoadSnapshot PROVE Right
  BY <1>11, LoadSnapshotStep
<1>12. ASSUME ScanVersion PROVE Right
  BY <1>12, ScanVersionStep
<1>13. ASSUME ScanKeys PROVE Right
  BY <1>13, ScanKeysStep
<1>14. ASSUME ScanNumber PROVE Right
  BY <1>14, ScanNumberStep
<1>15. ASSUME ScanSymbolName PROVE Right
  BY <1>15, ScanSymbolNameStep
<1>16. ASSUME ScanReference PROVE Right
  BY <1>16, ScanReferenceStep
<1>17. ASSUME EndScan PROVE Right
  BY <1>17, EndScanStep
<1>18. ASSUME UNCHANGED vars PROVE Right
  BY <1>18, SameStep
<1>19. Right
  <2> HIDE DEF Right
  <2>1. Start \/ Stop \/ Save \/ CrashInSave
        \/ (\E name \in Names : AddFileName(name))
        \/ (\E n \in Slots : RemoveFile(n) \/ BeginParse(n))
        \/ (\E r \in [item : Items, file : Slots, line : Lines, usage : Usages] : AddReference(r))
        \/ (\E name \in Names \cup {NoFileName} : ScanFileName(name))
        \/ LoadSnapshot \/ ScanVersion \/ ScanKeys \/ ScanNumber
        \/ ScanSymbolName \/ ScanReference \/ EndScan \/ UNCHANGED vars
    BY Zenon DEF Next
  <2>2. CASE \E name \in Names : AddFileName(name)
    BY <1>6, <2>2
  <2>3. CASE \E n \in Slots : RemoveFile(n) \/ BeginParse(n)
    BY <1>7, <1>8, <2>3
  <2>4. CASE \E r \in [item : Items, file : Slots, line : Lines, usage : Usages] : AddReference(r)
    BY <1>9, <2>4
  <2>5. CASE \E name \in Names \cup {NoFileName} : ScanFileName(name)
    BY <1>10, <2>5
  <2> QED
    BY Zenon, <1>2, <1>3, <1>4, <1>5, <1>11, <1>12, <1>13, <1>14, <1>15, <1>16, <1>17, <1>18,
       <2>1, <2>2, <2>3, <2>4, <2>5
<1> QED
  BY <1>1, <1>19 DEF KInv

(* What cxfile.c writes gives the next server, by name, the references and *)
(* the knowledge times that this one had, all of them when it was written  *)
(* whole and a part when it was cut short: whatever numbers the files have *)
(* in either, whatever order the items are written in and whatever numbers *)
(* are left out because they are the last ones of their tag.  Between the  *)
(* saves the numbers show what KnownReferences says of the names.          *)
THEOREM ReferencesAreKept == ASSUME HeadersStay PROVE Spec => KeepsReferences
<1>1. Init => KInv /\ Promise!Init
  BY InitKnown
<1>2. KInv /\ [Next]_vars => KInv' /\ [Promise!Next]_(Promise!vars)
  BY NextKnown DEF Shown
<1> QED
  BY <1>1, <1>2, PTL DEF Spec, KeepsReferences, Promise!Spec

=============================================================================
