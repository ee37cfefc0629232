---------------------------- MODULE MCEditorText ----------------------------
(***************************************************************************)
(* Two files of three and one characters, a free name, one marker.         *)
(***************************************************************************)
EXTENDS EditorText

CONSTANTS fileA, fileB, new, c1, c2, c3, c4, x, y, m1

MCOpened == <<[fileName |-> fileA, text |-> <<c1, c2, c3>>],
              [fileName |-> fileB, text |-> <<c4>>]>>
MCStrings == {<<>>, <<x>>, <<x, y>>}
=============================================================================
