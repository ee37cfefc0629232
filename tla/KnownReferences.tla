--------------------------- MODULE KnownReferences ---------------------------
(***************************************************************************)
(* What a server and the snapshot promise each other: the references the   *)
(* server knows and the times it knows them from, by the names of files    *)
(* and not by the numbers of one server.  A snapshot that was saved whole  *)
(* gives the next server what this one had that others may see, one that   *)
(* was cut short gives it a part.  SnapshotFile.tla implements this with a *)
(* hash table of files and a file of records.                              *)
(***************************************************************************)
EXTENDS Naturals

CONSTANTS
  Files,
  References,   \* [item, file, line, usage], of files by name
  Times

VARIABLES
  state,        \* "down", "started" (before the load), "open"
  refs, know,   \* the references; the knowledge time of each file, 0 for none
  gone,         \* files marked as deleted
  stored        \* [refs, know, whole]

vars == <<state, refs, know, gone, stored>>

Nothing == [f \in Files |-> 0]

SamePlace(q, r) == q.item = r.item /\ q.file = r.file /\ q.line = r.line

Kept == [refs |-> {r \in refs : r.item.visibility = "global"},
         know |-> [f \in Files |-> IF f \in gone THEN 0 ELSE know[f]],
         whole |-> TRUE]

Blank == refs' = {} /\ know' = Nothing /\ gone' = {}

Init ==
  /\ state = "down"
  /\ refs = {} /\ know = Nothing /\ gone = {}
  /\ stored = [refs |-> {}, know |-> Nothing, whole |-> TRUE]

Start == state = "down" /\ state' = "started" /\ Blank /\ UNCHANGED stored

Stop == state # "down" /\ state' = "down" /\ Blank /\ UNCHANGED stored

Load ==
  /\ state = "started" /\ state' = "open"
  /\ \/ /\ stored.whole
        /\ refs' = stored.refs /\ know' = stored.know
     \/ /\ ~stored.whole
        /\ refs' \subseteq stored.refs
        /\ know' \in [Files -> Times] /\ \A f \in Files : know'[f] \in {0, stored.know[f]}
  /\ gone' = {} /\ UNCHANGED stored

Meet(f) == gone' = gone \ {f} /\ UNCHANGED <<state, refs, know, stored>>

MarkAsDeleted(f) ==
  /\ refs' = {r \in refs : r.file # f}
  /\ gone' = gone \cup {f}
  /\ UNCHANGED <<state, know, stored>>

Record(r) ==
  /\ state = "open"
  /\ refs' = {q \in refs : ~SamePlace(q, r)} \cup {r}
  /\ UNCHANGED <<state, know, gone, stored>>

(* f is parsed again, with what it says at that time *)
Parse(f, time) ==
  /\ state = "open"
  /\ refs' = {r \in refs : r.file # f}
  /\ know' = [know EXCEPT ![f] = time]
  /\ UNCHANGED <<state, gone, stored>>

Save == state = "open" /\ stored' = Kept /\ UNCHANGED <<state, refs, know, gone>>

CrashInSave ==
  /\ state = "open" /\ state' = "down" /\ Blank
  /\ stored' = [Kept EXCEPT !.whole = FALSE]

Next ==
  \/ Start \/ Stop \/ Load \/ Save \/ CrashInSave
  \/ \E f \in Files : Meet(f) \/ MarkAsDeleted(f) \/ \E time \in Times : Parse(f, time)
  \/ \E r \in References : Record(r)

Spec == Init /\ [][Next]_vars

=============================================================================
