----------------------------- MODULE EditorText -----------------------------
(***************************************************************************)
(* The texts a refactoring edits (editor.c, editormarker.c, undo.c,        *)
(* editorbuffer.c) and the way its edits reach the client (refactory.c):   *)
(* they are done in the server's own buffers, all undone, and done again   *)
(* with output that the client applies to its files.                       *)
(*                                                                         *)
(* A text is a sequence of characters.  A file that is not there and an    *)
(* empty one are both the empty text.  Room for a text (allocation), times *)
(* and file numbers are left out.                                          *)
(*                                                                         *)
(* ShiftedAfter, RenamedBeside and the like are mistaken forms of the      *)
(* definition that follows them, for the properties to catch.              *)
(***************************************************************************)
EXTENDS Integers, Sequences, FiniteSets

CONSTANTS
    Name,        \* file names
    Char,
    Opened,      \* the files there are, each with its name and its text
    Marker,
    Strings,     \* what an edit may insert
    MaxEdits     \* bound: edits that refactorings make in all

Original == UNION {{Opened[i].text[k] : k \in 1..Len(Opened[i].text)} : i \in 1..Len(Opened)}

ASSUME EditorAssumption ==
    /\ Opened \in Seq([fileName : Name, text : Seq(Char)])
    /\ \A i, j \in 1..Len(Opened) :
          Opened[i].fileName = Opened[j].fileName => i = j
    /\ Strings \subseteq Seq(Char)
    /\ MaxEdits \in Nat

VARIABLES
    editor,      \* the buffers, their table and their markers
    editorUndo,  \* what undoes the edits of this refactoring, the last one first
    redoTrack,   \* what does them again, the first one first
    phase,       \* "edit", "undo" or "replay"
    client,      \* the client's texts
    edits,
    edited       \* history: the editor when the edits were done
vars == <<editor, editorUndo, redoTrack, phase, client, edits, edited>>

\* A buffer that was freed stays in the sequence, so that a record that still
\* points at it can be seen
BufferRecord == [fileName : Name, text : Seq(Char), modified : BOOLEAN, open : BOOLEAN]
Place == [buffer : Nat \ {0}, offset : Nat]
Editor == [buffers : Seq(BufferRecord), table : [Name -> Nat],
           markers : [Marker -> Place]]

Undo == [op : {"replace"}, buffer : Nat, offset : Nat, size : Nat, str : Seq(Char)]
        \cup [op : {"rename"}, buffer : Nat, name : Name]
        \cup [op : {"move"}, buffer : Nat, offset : Nat, size : Nat,
              dbuffer : Nat, doffset : Nat]

\* getEditorBufferForFile(), with 0 for NULL
BufferOf(e, n) == e.table[n]
NameOf(e, b) == e.buffers[b].fileName
TextOf(e, b) == e.buffers[b].text
Contents(e) ==
    [n \in Name |-> IF BufferOf(e, n) = 0 THEN <<>> ELSE TextOf(e, BufferOf(e, n))]

-----------------------------------------------------------------------------
(* Replacing *)

\* The first o characters of t stay, the next d make room for s
Cut(t, o, d, s) == SubSeq(t, 1, o) \o s \o SubSeq(t, o + d + 1, Len(t))

\* The deletion ends where the text does
Clamped(t, o, size) == IF o + size > Len(t) THEN Len(t) - o ELSE size

ShiftedInside(p, o, d, l) == IF p >= o + l THEN p - d + l ELSE p
ShiftedAfter(p, o, d, l) == IF p > o + d THEN p - d + l ELSE p

\* Where a marker at p goes when the d characters at o become l others
Shift(p, o, d, l) ==
    CASE p >= o + d -> p - d + l
      [] p < o + d /\ p >= o + l -> IF l > 0 THEN o + l - 1 ELSE o
      [] OTHER -> p

\* replaceStringInEditorBuffer() but for the undo record
Replaced(e, b, o, size, s) ==
    LET d == Clamped(TextOf(e, b), o, size)
    IN [e EXCEPT
          !.buffers[b] = [@ EXCEPT !.text = Cut(TextOf(e, b), o, d, s),
                                  !.modified = TRUE],
          !.markers = [m \in Marker |->
              IF e.markers[m].buffer = b
              THEN [e.markers[m] EXCEPT !.offset = Shift(@, o, d, Len(s))]
              ELSE e.markers[m]]]

UndoOfReplaceUnclamped(e, b, o, size, s) ==
    [op |-> "replace", buffer |-> b, offset |-> o, size |-> size,
     str |-> SubSeq(TextOf(e, b), o + 1, o + Clamped(TextOf(e, b), o, size))]

UndoOfReplace(e, b, o, size, s) ==
    [op |-> "replace", buffer |-> b, offset |-> o, size |-> Len(s),
     str |-> SubSeq(TextOf(e, b), o + 1, o + Clamped(TextOf(e, b), o, size))]

-----------------------------------------------------------------------------
(* Moving a block *)

IntoItself(p, q, size) ==
    p.buffer = q.buffer /\ p.offset < q.offset /\ q.offset < p.offset + size

\* Where the block is once there is room for it at q
Displaced(p, q, size) ==
    IF p.buffer = q.buffer THEN [p EXCEPT !.offset = Shift(@, q.offset, 0, size)] ELSE p

InBlock(p, from, size) ==
    p.buffer = from.buffer /\ p.offset >= from.offset /\ p.offset < from.offset + size

MovedLeavingMarkers(e, p, q, size) ==
    LET block == SubSeq(TextOf(e, p.buffer), p.offset + 1, p.offset + size)
        from == Displaced(p, q, size)
    IN Replaced(Replaced(e, q.buffer, q.offset, 0, block),
                from.buffer, from.offset, size, <<>>)

\* moveBlockInEditorBuffer() but for the undo record.  The code makes room, and
\* fills it when it knows where that has moved the block to
Moved(e, p, q, size) ==
    LET block == SubSeq(TextOf(e, p.buffer), p.offset + 1, p.offset + size)
        from == Displaced(p, q, size)
        copied == Replaced(e, q.buffer, q.offset, 0, block)
        taken == [copied EXCEPT !.markers = [m \in Marker |->
                      IF InBlock(copied.markers[m], from, size)
                      THEN [buffer |-> q.buffer,
                            offset |-> q.offset + copied.markers[m].offset - from.offset]
                      ELSE copied.markers[m]]]
    IN Replaced(taken, from.buffer, from.offset, size, <<>>)

\* Where the block is in the end
Landed(p, q, size) ==
    LET from == Displaced(p, q, size)
    IN IF from.buffer = q.buffer
       THEN [q EXCEPT !.offset = Shift(@, from.offset, size, 0)]
       ELSE q

UndoOfMoveBefore(p, q, size) ==
    [op |-> "move", buffer |-> q.buffer, offset |-> Landed(p, q, size).offset,
     size |-> size, dbuffer |-> p.buffer, doffset |-> p.offset]

UndoOfMove(p, q, size) ==
    [op |-> "move", buffer |-> q.buffer, offset |-> Landed(p, q, size).offset,
     size |-> size, dbuffer |-> p.buffer, doffset |-> Displaced(p, q, size).offset]

-----------------------------------------------------------------------------
(* Names *)

\* createNewEditorBuffer() with an empty text
Created(e, n, mod) ==
    [e EXCEPT !.buffers = Append(@, [fileName |-> n, text |-> <<>>,
                                     modified |-> mod, open |-> TRUE]),
              !.table[n] = Len(e.buffers) + 1]

\* deregisterEditorBuffer() and freeEditorBuffer()
Freed(e, n) ==
    IF BufferOf(e, n) = 0 THEN e
    ELSE [e EXCEPT !.buffers[BufferOf(e, n)].open = FALSE, !.table[n] = 0]

RenamedBeside(e, b, n) ==
    LET old == NameOf(e, b)
        named == [e EXCEPT !.buffers[b].fileName = n, !.table[n] = b]
    IN Created(named, old, TRUE)

RenamedThenFreed(e, b, n) ==
    LET old == NameOf(e, b)
        named == [e EXCEPT !.buffers[b] = [@ EXCEPT !.fileName = n, !.modified = TRUE],
                           !.table[n] = b]
    IN Created(Freed(named, n), old, TRUE)

\* renameEditorBuffer() but for the undo record
Renamed(e, b, n) ==
    LET old == NameOf(e, b)
        freed == Freed([e EXCEPT !.table[old] = 0], n)
        named == [freed EXCEPT !.buffers[b] = [@ EXCEPT !.fileName = n, !.modified = TRUE],
                               !.table[n] = b]
    IN Created(named, old, TRUE)

UndoOfRename(e, b) == [op |-> "rename", buffer |-> b, name |-> NameOf(e, b)]

-----------------------------------------------------------------------------
(* Undoing, and doing again: a record is applied, and what undoes that is  *)
(* another record                                                          *)

From(u) == [buffer |-> u.buffer, offset |-> u.offset]
To(u) == [buffer |-> u.dbuffer, offset |-> u.doffset]

\* One round of editorApplyUndos()
Applied(e, u) ==
    CASE u.op = "replace" -> Replaced(e, u.buffer, u.offset, u.size, u.str)
      [] u.op = "rename" -> Renamed(e, u.buffer, u.name)
      [] u.op = "move" -> IF IntoItself(From(u), To(u), u.size) THEN e
                          ELSE Moved(e, From(u), To(u), u.size)

\* What that puts on the other list
UndoOf(e, u) ==
    CASE u.op = "replace" -> UndoOfReplace(e, u.buffer, u.offset, u.size, u.str)
      [] u.op = "rename" -> UndoOfRename(e, u.buffer)
      [] u.op = "move" -> UndoOfMove(From(u), To(u), u.size)

Touches(u, b) == u.buffer = b \/ (u.op = "move" /\ u.dbuffer = b)

-----------------------------------------------------------------------------
(* The client: c-xref-server-dispatch-replacement, -refactoring-cut-block, *)
(* -refactoring-paste-block and -move-file-as of c-xref.el                 *)

\* The block is pasted where the server's own is by then
ClientMoved(c, e, u) ==
    LET from == NameOf(e, u.buffer)
        block == SubSeq(c[from], u.offset + 1, u.offset + u.size)
        cut == [c EXCEPT ![from] = Cut(@, u.offset, u.size, <<>>)]
        place == Landed(From(u), To(u), u.size)
    IN [cut EXCEPT ![NameOf(e, place.buffer)] = Cut(@, place.offset, 0, block)]

\* What the output of one round makes of the client's texts
ClientApplied(c, e, u) ==
    CASE u.op = "replace" ->
            [c EXCEPT ![NameOf(e, u.buffer)] = Cut(@, u.offset, u.size, u.str)]
      [] u.op = "rename" ->
            [c EXCEPT ![u.name] = c[NameOf(e, u.buffer)], ![NameOf(e, u.buffer)] = <<>>]
      [] u.op = "move" -> ClientMoved(c, e, u)

-----------------------------------------------------------------------------
(* A refactoring *)

Init ==
    /\ editor \in {[buffers |-> [i \in 1..Len(Opened) |->
                        [fileName |-> Opened[i].fileName, text |-> Opened[i].text,
                         modified |-> FALSE, open |-> TRUE]],
                    table |-> [n \in Name |->
                        IF \E i \in 1..Len(Opened) : Opened[i].fileName = n
                        THEN CHOOSE i \in 1..Len(Opened) : Opened[i].fileName = n
                        ELSE 0],
                    markers |-> ms] :
                   ms \in [Marker -> UNION {{[buffer |-> i, offset |-> o] :
                                              o \in 0..Len(Opened[i].text)} :
                                            i \in 1..Len(Opened)}]}
    /\ editorUndo = <<>> /\ redoTrack = <<>> /\ phase = "edit" /\ edits = 0
    /\ client = Contents(editor)
    /\ edited = editor

\* A file the refactoring has renamed is edited under its new name only
Editable(b) ==
    /\ editor.buffers[b].open
    /\ \A i \in 1..Len(editorUndo) :
          editorUndo[i].op = "rename" => editorUndo[i].name # NameOf(editor, b)

\* An edit is noted for undo
Edit(e, u) ==
    /\ phase = "edit" /\ edits < MaxEdits
    /\ edits' = edits + 1
    /\ editor' = e
    /\ editorUndo' = <<u>> \o editorUndo
    /\ UNCHANGED <<redoTrack, phase, client, edited>>

Buffers == {b \in 1..Len(editor.buffers) : Editable(b)}
PlacesIn(b) == [buffer : {b}, offset : 0..Len(TextOf(editor, b))]

\* replaceString().  A deletion may ask for more than there is
Replace ==
    \E b \in Buffers, s \in Strings :
    \E o \in 0..Len(TextOf(editor, b)) :
    \E size \in 0..(Len(TextOf(editor, b)) - o + 1) :
        /\ size + Len(s) > 0
        /\ Edit(Replaced(editor, b, o, size, s), UndoOfReplace(editor, b, o, size, s))

\* moveFunction() with its helpers: each is a block that is not empty
MoveBlock ==
    \E b, c \in Buffers :
    \E p \in PlacesIn(b), q \in PlacesIn(c) :
    \E size \in 1..(Len(TextOf(editor, b)) - p.offset) :
        /\ ~IntoItself(p, q, size)
        /\ Edit(Moved(editor, p, q, size), UndoOfMove(p, q, size))

\* A name without a file: none was ever there, or a rename has taken it away
FreeName(n) ==
    /\ Contents(editor)[n] = <<>>
    /\ \A i \in 1..Len(editorUndo) : ~Touches(editorUndo[i], BufferOf(editor, n))

\* renameFile(), to a name that is free
RenameFile ==
    \E b \in Buffers, n \in Name :
        /\ n # NameOf(editor, b) /\ FreeName(n)
        /\ Edit(Renamed(editor, b, n), UndoOfRename(editor, b))

\* createHeaderWithDeclaration()
CreateHeader ==
    \E n \in Name, s \in Strings \ {<<>>} :
        LET created == Created(editor, n, FALSE)
            b == Len(created.buffers)
        IN /\ BufferOf(editor, n) = 0
           /\ Edit(Replaced(created, b, 0, 0, s), UndoOfReplace(created, b, 0, 0, s))

\* applyWholeRefactoringFromUndo(), one record at a time
ApplyWholeRefactoring ==
    /\ phase = "edit" /\ phase' = "undo"
    /\ edited' = editor
    /\ UNCHANGED <<editor, editorUndo, redoTrack, client, edits>>

UndoOne ==
    /\ phase = "undo" /\ editorUndo # <<>>
    /\ editor' = Applied(editor, Head(editorUndo))
    /\ redoTrack' = <<UndoOf(editor, Head(editorUndo))>> \o redoTrack
    /\ editorUndo' = Tail(editorUndo)
    /\ UNCHANGED <<phase, client, edits, edited>>

BeginReplay ==
    /\ phase = "undo" /\ editorUndo = <<>> /\ phase' = "replay"
    /\ UNCHANGED <<editor, editorUndo, redoTrack, client, edits, edited>>

ReplayOne ==
    /\ phase = "replay" /\ redoTrack # <<>>
    /\ editor' = Applied(editor, Head(redoTrack))
    /\ client' = ClientApplied(client, editor, Head(redoTrack))
    /\ redoTrack' = Tail(redoTrack)
    /\ UNCHANGED <<editorUndo, phase, edits, edited>>

EndRefactoring ==
    /\ phase = "replay" /\ redoTrack = <<>> /\ phase' = "edit"
    /\ UNCHANGED <<editor, editorUndo, redoTrack, client, edits, edited>>

Next ==
    \/ Replace \/ MoveBlock \/ RenameFile \/ CreateHeader
    \/ ApplyWholeRefactoring \/ UndoOne \/ BeginReplay \/ ReplayOne \/ EndRefactoring

Spec == Init /\ [][Next]_vars

-----------------------------------------------------------------------------
(* Properties *)

TypeOK ==
    /\ editor \in Editor
    /\ editorUndo \in Seq(Undo) /\ redoTrack \in Seq(Undo)
    /\ phase \in {"edit", "undo", "replay"}
    /\ client \in [Name -> Seq(Char)]
    /\ edits \in 0..MaxEdits
    /\ edited \in Editor

\* The table has every open buffer under its name and no other, and a buffer
\* that counts as unmodified, which the server closes without asking, holds
\* what was read from its file
BuffersAreRight ==
    /\ \A n \in Name, b \in 1..Len(editor.buffers) :
          editor.table[n] = b <=> NameOf(editor, b) = n /\ editor.buffers[b].open
    /\ \A b \in 1..Len(editor.buffers) :
          editor.buffers[b].open /\ ~editor.buffers[b].modified =>
              /\ b <= Len(Opened)
              /\ NameOf(editor, b) = Opened[b].fileName
              /\ TextOf(editor, b) = Opened[b].text

\* No record is about a buffer that renameEditorBuffer() has freed
RecordsAreLive ==
    \A u \in {editorUndo[i] : i \in 1..Len(editorUndo)}
             \cup {redoTrack[i] : i \in 1..Len(redoTrack)} :
        \A b \in 1..Len(editor.buffers) : Touches(u, b) => editor.buffers[b].open

\* What is undone is what the client has, and the output keeps the client and
\* the server the same: editorApplyUndos() leaves nothing out, in either round
ClientFollows == editorUndo = <<>> => client = Contents(editor)

\* Doing everything again gives the texts that were edited
ReplayRepeats ==
    phase = "replay" /\ redoTrack = <<>> => Contents(editor) = Contents(edited)

\* A marker is in its text, the end included
MarkersInText ==
    \A m \in Marker : LET p == editor.markers[m] IN p.offset <= Len(TextOf(editor, p.buffer))

\* What a marker is on
On(e, m) ==
    LET p == e.markers[m] IN {TextOf(e, p.buffer)[k] : k \in {p.offset + 1} \cap
                                                          1..Len(TextOf(e, p.buffer))}
CharsOf(e) ==
    UNION {{Contents(e)[n][k] : k \in 1..Len(Contents(e)[n])} : n \in Name}

\* A marker on a character of the files as they were stays on it, through edits,
\* moves to other files, undoing and replaying, unless the character goes
MarkersStick ==
    [][\A m \in Marker :
          On(editor, m) \subseteq Original /\ On(editor, m) \subseteq CharsOf(editor') =>
              On(editor, m) \subseteq On(editor', m)]_vars

=============================================================================
