------------------------------ MODULE MacrosInC ------------------------------
(***************************************************************************)
(* Macro expansion as C has it: the algorithm with hide sets that the      *)
(* wording of C99 6.10.3 was made from.  It is not the program's;          *)
(* MacroExpansion is compared with it.                                     *)
(*                                                                         *)
(* A token is a lexem with the names that are not to be replaced in it any *)
(* more.  Wrong is in the place of what is no C: a call without its end,   *)
(* too many or too few arguments, two tokens that make no token.  Unknown  *)
(* stands for the expansion of a macro that has no body.                   *)
(***************************************************************************)
EXTENDS Integers, Sequences, FiniteSets, SequencesExt

CONSTANTS
  Params,        \* of each macro: its parameters, or ObjectLike
  ObjectLike,
  Pasted,        \* the text that ## makes of two texts
  NoBody         \* in the place of a body

Wrong == [code |-> "WRONG", text |-> "", hide |-> {}]
Unknown == [code |-> "UNKNOWN", text |-> "", hide |-> {}]

Token(l, hide) == [code |-> l.code, text |-> l.text, hide |-> hide]
Tokens(ls) == [i \in DOMAIN ls |-> Token(ls[i], {})]
Hidden(ts, names) == [i \in DOMAIN ts |-> [ts[i] EXCEPT !.hide = @ \cup names]]
From(s, i) == SubSeq(s, i, Len(s))

(***************************************************************************)
(* The arguments of a call, which begin at the second token                *)
(***************************************************************************)
Count(ts, code, i, j) == Cardinality({k \in i..j : ts[k].code = code})
Outside(ts, j) == Count(ts, "(", 2, j - 1) = Count(ts, ")", 2, j - 1)

Ends(ts) == {j \in 2..Len(ts) : ts[j].code = ")" /\ Outside(ts, j)}
End(ts) == CHOOSE j \in Ends(ts) : \A k \in Ends(ts) : j <= k

Arguments(ts) ==
  LET commas == SetToSortSeq({j \in 2..End(ts) : ts[j].code = "," /\ Outside(ts, j)}, <)
      bounds == <<1>> \o commas \o <<End(ts)>>
  IN [k \in 1..(Len(bounds) - 1) |-> SubSeq(ts, bounds[k] + 1, bounds[k + 1] - 1)]

Glued(ls, rs) ==
  IF ls = <<>> THEN rs
  ELSE LET l == Last(ls)
           r == Head(rs)
       IN Front(ls)
          \o (IF {l.code, r.code} \subseteq {"IDENTIFIER", "CONSTANT"}
              THEN <<[code |-> "IDENTIFIER", text |-> Pasted[l.text, r.text], hide |-> l.hide \cap r.hide]>>
              ELSE <<Wrong>>)
          \o Tail(rs)

(***************************************************************************)
(* The replacement of a macro by its body, and of what is left of a text   *)
(***************************************************************************)
RECURSIVE Expanded(_, _), Substituted(_, _, _, _)

Substituted(is, args, os, body) ==
  IF is = <<>> THEN os
  ELSE LET t == Head(is)
           pastes(i) == i <= Len(is) /\ is[i].code = "##"
           arg(i) == args[is[i].text]
           IsArg(i) == i <= Len(is) /\ is[i].code = "ARG"
       IN IF pastes(1)
          THEN Substituted(From(is, 3), args,
                           IF ~IsArg(2) THEN Glued(os, <<is[2]>>)
                           ELSE IF arg(2) = <<>> THEN os ELSE Glued(os, arg(2)), body)
          ELSE IF IsArg(1) /\ pastes(2)
          THEN IF arg(1) # <<>> THEN Substituted(Tail(is), args, os \o arg(1), body)
               ELSE IF IsArg(3) THEN Substituted(From(is, 4), args, os \o arg(3), body)
               ELSE Substituted(From(is, 3), args, os, body)
          ELSE Substituted(Tail(is), args,
                           os \o (IF IsArg(1) THEN Expanded(arg(1), body) ELSE <<t>>), body)

Expanded(ts, body) ==
  IF ts = <<>> THEN <<>>
  ELSE LET t == Head(ts)
           rest == Tail(ts)
           Call(args, names) ==
             Hidden(Substituted(Tokens(body[t.text]), args, <<>>, body), names \cup {t.text})
       IN IF t.code # "IDENTIFIER" \/ t.text \notin DOMAIN Params \ t.hide THEN <<t>> \o Expanded(rest, body)
          ELSE IF Params[t.text] = ObjectLike
          THEN IF body[t.text] = NoBody THEN <<Unknown>>
               ELSE Expanded(Call(<<>>, t.hide) \o rest, body)
          ELSE IF rest = <<>> \/ rest[1].code # "(" THEN <<t>> \o Expanded(rest, body)
          ELSE IF body[t.text] = NoBody THEN <<Unknown>>
          ELSE IF Ends(rest) = {} \/ Len(Arguments(rest)) # Len(Params[t.text]) THEN <<Wrong>>
          ELSE LET args == Arguments(rest)
                   params == Params[t.text]
               IN Expanded(Call([p \in ToSet(params) |-> args[CHOOSE k \in DOMAIN params : params[k] = p]],
                                t.hide \cap rest[End(rest)].hide)
                           \o From(rest, End(rest) + 1), body)
=============================================================================
