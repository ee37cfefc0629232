---------------------------- MODULE MCExtractFlow ----------------------------
(***************************************************************************)
(* Texts of a while with an if that leaves it and two uses of the          *)
(* variable, and everything as small; the rarer constructs cost more, so   *)
(* that they come in smaller texts.                                        *)
(***************************************************************************)
EXTENDS ExtractFlow

MCCost == [k \in {"none", "begin", "finish", "end", "step", "statement", "auto"} |-> 0]
       @@ [k \in {"read", "assign", "modify", "if", "else", "while", "break"} |-> 1]
       @@ [k \in {"do", "goto", "label"} |-> 2]
       @@ [k \in {"static", "return", "for", "maybe", "continue", "switch", "case", "param"} |-> 3]
=============================================================================
