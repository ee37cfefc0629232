-------------------------- MODULE SymbolsInvariant --------------------------
(***************************************************************************)
(* Why the symbol table has no pointer into freed memory and ends each     *)
(* block without exactly what was declared in it: the inductive invariant  *)
(* that Symbols_proofs rests on.                                           *)
(***************************************************************************)
EXTENDS Symbols

-----------------------------------------------------------------------------
(* Nothing dangles                                                         *)

Cell == [type : {"keyword", "default", "tag", "label", "member"},
         name : Names \cup {"struct", "loop", "m"}, members : Nat, global : BOOLEAN]
Macro == [type : {"macro"}, name : Names, defined : BOOLEAN]
Frame == [do : {"delete", "null"}, symbol : Nat]
Block == [free : Nat, frames : Seq(Frame), isFileScope : BOOLEAN]
Construct == [kind : {"function", "body", "block", "loop", "tag"}, symbol : Nat]
Checkpoint == [saved : BOOLEAN, free : Nat, ppm : Nat]

Typed ==
  /\ stack \in Seq(Cell) /\ ppm \in Seq(Macro)
  /\ frames \in Seq(Frame) /\ isFileScope \in BOOLEAN /\ outer \in Seq(Block)
  /\ table \in Seq(Int)
  /\ clean \in Checkpoint /\ project \in Checkpoint
  /\ constructs \in Seq(Construct) /\ parsing \in {"no"} \cup Operations
  /\ Len(stack) < StackSize /\ Len(ppm) <= PpmSize /\ Len(constructs) <= MaxNesting

\* Before the first file there is the keyword alone, and every file starts with it.
Checkpoints ==
  /\ clean.saved = project.saved
  /\ ~clean.saved => /\ parsing = "no" /\ Len(stack) = 1 /\ table = <<1>> /\ ppm = <<>>
                     /\ frames = <<>> /\ outer = <<>>
  /\ clean.saved => clean.free = 1 /\ clean.ppm = 0 /\ project.free = 1 /\ project.ppm <= 1
  /\ project.ppm <= Len(ppm)
  /\ parsing = "no" => constructs = <<>>

\* The table's pointers are good, and descend.
Good(tab, n, m) ==
  \A i \in 1..Len(tab) : tab[i] \in 1..n \/ -tab[i] \in 1..m
Descends(tab) ==
  \A i, j \in 1..Len(tab) : i < j /\ tab[i] > 0 /\ tab[j] > 0 => tab[i] > tab[j]

\* The members of a tag are of its own block.
MembersStay(cells, out) ==
  /\ \A i \in 1..Len(cells) : cells[i].members <= Len(cells)
  /\ \A d \in 1..Len(out), i \in 1..Len(cells) :
        i <= out[d].free => cells[i].members <= out[d].free

\* The actions in a frame are of symbols of its block, the newest symbols first.
FramesOf(cells, fr) ==
  /\ \A i \in 1..Len(fr) : fr[i].symbol \in 1..Len(cells)
  /\ \A i \in 1..Len(fr) :
        fr[i].do = "delete" => fr[i].symbol > 1 /\ cells[fr[i].symbol].type \in {"default", "tag"}
  /\ \A i, j \in 1..Len(fr) :
        i < j /\ fr[i].do = "delete" /\ fr[j].do = "delete" => fr[i].symbol > fr[j].symbol

\* What an outer block has is the older part of what there is.
Outside(b, fr, n) ==
  /\ b.free \in 1..n /\ Len(b.frames) <= Len(fr)
  /\ \A i \in 1..Len(b.frames) : b.frames[i] = fr[Len(fr) - Len(b.frames) + i]
  /\ \A i \in 1..Len(b.frames) : b.frames[i].symbol <= b.free
  /\ \A i \in 1..(Len(fr) - Len(b.frames)) : fr[i].do = "delete" => fr[i].symbol > b.free

BlocksNest(out, fr, n) ==
  /\ \A d \in 1..Len(out) : Outside(out[d], fr, n)
  /\ \A d, e \in 1..Len(out) : d < e => out[d].free <= out[e].free /\ Len(out[d].frames) <= Len(out[e].frames)

\* While a file is parsed: whatever is in the table but the keyword will be taken
\* out by a frame or at the end of a loop.
Labels(c) == IF c.kind = "loop" /\ c.symbol # None THEN {c.symbol, c.symbol + 1} ELSE {}
Owned(tab, fr, con) ==
  \A i \in 1..Len(tab) : tab[i] > 1 =>
    \/ \E j \in 1..Len(fr) : fr[j].do = "delete" /\ fr[j].symbol = tab[i]
    \/ \E k \in 1..Len(con) : tab[i] \in Labels(con[k])

LoopsNest(cells, con, op) ==
  /\ \A k \in 1..Len(con) : con[k].kind = "loop" => (con[k].symbol # None <=> op = "extract")
  /\ \A k \in 1..Len(con) : \A p \in Labels(con[k]) :
        p \in 2..Len(cells) /\ cells[p].type = "label" /\ cells[p].name = "loop"
  /\ \A k, l \in 1..Len(con) : \A p \in Labels(con[k]), q \in Labels(con[l]) : k < l => p < q

TagsStay(cells, out, con) ==
  /\ \A k \in 1..Len(con) : con[k].kind = "tag" =>
        con[k].symbol \in 2..Len(cells) /\ \A d \in 1..Len(out) : con[k].symbol > out[d].free
  /\ \A k, l \in 1..Len(con) : k < l /\ con[k].kind = "tag" => con[l].kind = "tag"
  /\ \A k \in 1..Len(con) : con[k].symbol <= Len(cells)

\* The constructs that begin a block, and the block that each construct is in or
\* begins: what is around a block, with the labels of the loops, is older than it.
BeginsBlock(c) == c.kind \in {"function", "body", "block"}
Levels(out, con, lv) ==
  /\ \A k \in 1..Len(con) : lv[k] \in 0..Len(out) /\ (BeginsBlock(con[k]) => lv[k] > 0)
  /\ \A k \in 1..(Len(con) - 1) : lv[k + 1] = lv[k] + IF BeginsBlock(con[k + 1]) THEN 1 ELSE 0
  /\ \A k, l \in 1..Len(con) : k < l => lv[k] <= lv[l]
  /\ Len(con) > 0 => lv[Len(con)] = Len(out)
  /\ \A k, l \in 1..Len(con) : k < l /\ BeginsBlock(con[l]) =>
        con[k].symbol <= out[lv[l]].free /\ \A p \in Labels(con[k]) : p <= out[lv[l]].free

\* m is how many macros there are.
Core(cells, m, tab, fr, out, con, op) ==
  /\ cells \in Seq(Cell) /\ tab \in Seq(Int) /\ fr \in Seq(Frame) /\ out \in Seq(Block)
  /\ con \in Seq(Construct) /\ m \in Nat
  /\ Len(cells) >= 1 /\ cells[1].type = "keyword"
  /\ Good(tab, Len(cells), m) /\ Descends(tab)
  /\ MembersStay(cells, out)
  /\ FramesOf(cells, fr)
  /\ BlocksNest(out, fr, Len(cells))
  /\ TagsStay(cells, out, con)
  /\ op # "no" => /\ Owned(tab, fr, con)
                  /\ LoopsNest(cells, con, op)
                  /\ \E lv \in [1..Len(con) -> Nat] : Levels(out, con, lv)

Inv ==
  /\ Typed /\ Checkpoints
  /\ Core(stack, Len(ppm), table, frames, outer, constructs, parsing)

-----------------------------------------------------------------------------
(* The invariant that says exactly what the table has: besides the         *)
(* keyword, every macro, and what the frames and the open constructs will  *)
(* take out or refer to.                                                   *)

Elements(s) == {s[i] : i \in 1..Len(s)}

\* Of two pointers into one memory, the newer one is further from zero.
Newer(p, q) == IF q > 0 THEN p > q ELSE p < q
NewestFirst(s) == \A i, j \in 1..Len(s) : i < j => Newer(s[i], s[j])

\* Pointers into one memory, the newest first; those into two are in any order.
Ordered(s) ==
  \A i, j \in 1..Len(s) : i < j /\ (s[i] > 0 <=> s[j] > 0) => Newer(s[i], s[j])

\* Of two tags of a name, one was hidden when the other was declared: a block that is
\* still open began between them.
OneTag(cells, tab, out) ==
  \A p, q \in Elements(tab) :
    /\ p > 0 /\ q > p
    /\ cells[p].type = "tag" /\ cells[q].type = "tag" /\ cells[p].name = cells[q].name
    => \E d \in 1..Len(out) : p <= out[d].free /\ out[d].free < q

\* The labels of the loops and the tags that are being read are in the table.
OpenListed(cells, tab, con) ==
  /\ \A k \in 1..Len(con) : \A p \in Labels(con[k]) : p \in Elements(tab)
  /\ \A k \in 1..Len(con) : con[k].kind = "tag" =>
        /\ con[k].symbol \in Elements(tab)
        /\ cells[con[k].symbol].type = "tag" /\ cells[con[k].symbol].name \in Names

\* So are the symbols that a frame takes out.
FramesListed(tab, fr) ==
  \A i \in 1..Len(fr) : fr[i].do = "delete" => fr[i].symbol \in Elements(tab)

\* A block completes its own tags only.
NullsInside(fr, out) ==
  \A d \in 1..Len(out) : \A i \in 1..(Len(fr) - Len(out[d].frames)) : fr[i].symbol > out[d].free

\* A loop's labels are of the block it is in.
Depths(out, con, lv) ==
  /\ \A k \in 1..(Len(con) - 1) : lv[k + 1] = lv[k] + IF BeginsBlock(con[k + 1]) THEN 1 ELSE 0
  /\ \A k, l \in 1..Len(con) : k < l => lv[k] <= lv[l]
  /\ Len(con) > 0 => lv[Len(con)] = Len(out)
LoopsInside(out, con) ==
  \A lv \in [1..Len(con) -> 0..Len(out)] : Depths(out, con, lv) =>
    \A k \in 1..Len(con) : \A p \in Labels(con[k]), d \in 1..lv[k] : out[d].free < p

HasExactly(cells, m, tab, fr, out, con) ==
  /\ cells[1] = Keyword /\ 1 \in Elements(tab)
  /\ Ordered(tab)
  /\ \A p \in 1..m : -p \in Elements(tab)
  /\ OneTag(cells, tab, out)
  /\ FramesListed(tab, fr)
  /\ OpenListed(cells, tab, con)
  /\ NullsInside(fr, out)
  /\ LoopsInside(out, con)

Exact == HasExactly(stack, Len(ppm), table, frames, outer, constructs)
=============================================================================
