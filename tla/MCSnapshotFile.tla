--------------------------- MODULE MCSnapshotFile ---------------------------
(***************************************************************************)
(* A CU c, its header h and another file x, of which two fit into the      *)
(* table beside NO_FILE; all of c, h and NO_FILE begin at the same slot, so  *)
(* the numbers of c and h are those of the order they come in.             *)
(***************************************************************************)
EXTENDS SnapshotFile

CONSTANTS c, h, x

MCNames == {c, h, x}
MCHash == [f \in {c, h, x, NoFileName} |-> CASE f = x -> 0 [] f = h -> 5 [] OTHER -> 1]

=============================================================================
