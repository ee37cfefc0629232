-------------------------- MODULE EditorText_proofs --------------------------
(***************************************************************************)
(* First one edit: what it does to the texts and the markers, that its     *)
(* record takes it back, and that the client keeps up with it, for all     *)
(* texts and all places in them.                                           *)
(*                                                                         *)
(* Then a whole refactoring: that the records of editorUndo, applied one   *)
(* after another, lead back to the texts the client has, and those of      *)
(* redoTrack forward to the texts that were edited; so that what the       *)
(* client gets is what was edited, whatever the edits were and however     *)
(* many.                                                                   *)
(***************************************************************************)
EXTENDS EditorText, SequenceTheorems, TLAPS

-----------------------------------------------------------------------------
(* A replacement in a text *)

\* A piece of a text, character by character
LEMMA PieceProperties ==
    ASSUME NEW t \in Seq(Char), NEW m \in Nat, NEW n \in Nat, m <= n, n <= Len(t)
    PROVE  /\ SubSeq(t, m + 1, n) \in Seq(Char)
           /\ Len(SubSeq(t, m + 1, n)) = n - m
           /\ \A i \in 1..(n - m) : SubSeq(t, m + 1, n)[i] = t[m + i]
<1>1. \A i \in (m + 1)..n : t[i] \in Char
  BY ElementOfSeq
<1>2. /\ SubSeq(t, m + 1, n) \in Seq(Char)
      /\ Len(SubSeq(t, m + 1, n)) = IF m + 1 <= n THEN n - (m + 1) + 1 ELSE 0
      /\ \A i \in 1..(n - (m + 1) + 1) : SubSeq(t, m + 1, n)[i] = t[(m + 1) + i - 1]
  BY <1>1, SubSeqProperties
<1>. QED
  BY <1>2

\* w is t with s for the d characters at o, character by character
IsCut(w, t, o, d, s) ==
    /\ w \in Seq(Char)
    /\ Len(w) = Len(t) - d + Len(s)
    /\ \A i \in 1..o : w[i] = t[i]
    /\ \A i \in (o + 1)..(o + Len(s)) : w[i] = s[i - o]
    /\ \A i \in (o + Len(s) + 1)..(Len(t) - d + Len(s)) : w[i] = t[i + d - Len(s)]

\* What Cut is
LEMMA CutProperties ==
    ASSUME NEW t \in Seq(Char), NEW s \in Seq(Char),
           NEW o \in Nat, NEW d \in Nat, o + d <= Len(t)
    PROVE  IsCut(Cut(t, o, d, s), t, o, d, s)
<1>. DEFINE head == SubSeq(t, 1, o)
            tail == SubSeq(t, o + d + 1, Len(t))
<1>1. Len(t) \in Nat /\ Len(s) \in Nat
  OBVIOUS
<1>2. head \in Seq(Char) /\ Len(head) = o /\ \A i \in 1..o : head[i] = t[i]
  BY <1>1, PieceProperties, 0 \in Nat, o <= Len(t), 0 + 1 = 1
<1>3. /\ tail \in Seq(Char)
      /\ Len(tail) = Len(t) - (o + d)
      /\ \A i \in 1..(Len(t) - (o + d)) : tail[i] = t[o + d + i]
  BY <1>1, PieceProperties, o + d \in Nat
<1>. HIDE DEF head, tail
<1>4. /\ head \o s \in Seq(Char)
      /\ Len(head \o s) = o + Len(s)
      /\ \A i \in 1..(o + Len(s)) :
            (head \o s)[i] = IF i <= o THEN head[i] ELSE s[i - o]
  BY <1>2, ConcatProperties
<1>. DEFINE whole == (head \o s) \o tail
<1>5. /\ whole \in Seq(Char)
      /\ Len(whole) = Len(t) - d + Len(s)
      /\ \A i \in 1..(Len(t) - d + Len(s)) :
            whole[i] = IF i <= o + Len(s) THEN (head \o s)[i] ELSE tail[i - (o + Len(s))]
  <2>. DEFINE first == head \o s
  <2>1. first \in Seq(Char) /\ Len(first) = o + Len(s)
    BY <1>4
  <2>. HIDE DEF first
  <2>2. /\ first \o tail \in Seq(Char)
        /\ Len(first \o tail) = Len(first) + Len(tail)
        /\ \A i \in 1..(Len(first) + Len(tail)) :
              (first \o tail)[i] = IF i <= Len(first) THEN first[i] ELSE tail[i - Len(first)]
    <3>1. first \in Seq(Char) /\ tail \in Seq(Char)
      BY <1>3, <2>1
    <3>. HIDE DEF first, tail
    <3>. QED
      BY <3>1, ConcatProperties
  <2>3. Len(first) + Len(tail) = Len(t) - d + Len(s)
    BY <2>1, <1>1, <1>3
  <2>. QED
    BY <2>1, <2>2, <2>3 DEF first
<1>6. Cut(t, o, d, s) = whole
  BY DEF Cut, head, tail
<1>. HIDE DEF whole
<1>7. ASSUME NEW i \in 1..o
      PROVE  whole[i] = t[i]
  <2>1. i \in 1..(o + Len(s)) /\ i \in 1..(Len(t) - d + Len(s)) /\ i <= o /\ i <= o + Len(s)
    BY <1>1
  <2>2. whole[i] = (head \o s)[i]
    BY <1>5, <2>1
  <2>3. (head \o s)[i] = head[i]
    BY <1>4, <2>1
  <2>. QED
    BY <1>2, <2>2, <2>3
<1>8. ASSUME NEW i \in (o + 1)..(o + Len(s))
      PROVE  whole[i] = s[i - o]
  <2>1. /\ i \in 1..(o + Len(s)) /\ i \in 1..(Len(t) - d + Len(s))
        /\ i <= o + Len(s) /\ ~(i <= o)
    BY <1>1
  <2>. QED
    BY <2>1, <1>4, <1>5
<1>9. \A i \in (o + Len(s) + 1)..(Len(t) - d + Len(s)) : whole[i] = t[i + d - Len(s)]
  <2>. SUFFICES ASSUME NEW i \in (o + Len(s) + 1)..(Len(t) - d + Len(s))
                PROVE  whole[i] = t[i + d - Len(s)]
    OBVIOUS
  <2>1. whole[i] = tail[i - (o + Len(s))]
    BY <1>1, <1>5
  <2>2. i - (o + Len(s)) \in 1..(Len(t) - (o + d))
    BY <1>1
  <2>3. tail[i - (o + Len(s))] = t[o + d + (i - (o + Len(s)))]
    BY <2>2, <1>3
  <2>4. o + d + (i - (o + Len(s))) = i + d - Len(s)
    BY <1>1
  <2>. QED
    BY <2>1, <2>3, <2>4
<1>. QED
  BY <1>5, <1>6, <1>7, <1>8, <1>9 DEF IsCut

\* The deletion is within the text
LEMMA ClampedProperties ==
    ASSUME NEW t \in Seq(Char), NEW o \in 0..Len(t), NEW size \in Nat
    PROVE  Clamped(t, o, size) \in Nat /\ o + Clamped(t, o, size) <= Len(t)
BY DEF Clamped

\* What was taken out, put back
PutBack(t, o, d, s) == Cut(Cut(t, o, d, s), o, Len(s), SubSeq(t, o + 1, o + d)) = t

\* Putting what was deleted back where it was
LEMMA CutIsUndone ==
    ASSUME NEW t \in Seq(Char), NEW s \in Seq(Char),
           NEW o \in Nat, NEW d \in Nat, o + d <= Len(t)
    PROVE  PutBack(t, o, d, s)
<1>. DEFINE new == Cut(t, o, d, s)
            old == SubSeq(t, o + 1, o + d)
            back == Cut(new, o, Len(s), old)
<1>1. Len(t) \in Nat /\ Len(s) \in Nat
  OBVIOUS
<1>2. /\ new \in Seq(Char)
      /\ Len(new) = Len(t) - d + Len(s)
      /\ \A i \in 1..o : new[i] = t[i]
      /\ \A i \in (o + Len(s) + 1)..(Len(t) - d + Len(s)) : new[i] = t[i + d - Len(s)]
  <2>1. IsCut(new, t, o, d, s)
    BY CutProperties
  <2>. QED
    BY <2>1 DEF IsCut
<1>3. old \in Seq(Char) /\ Len(old) = d /\ \A i \in 1..d : old[i] = t[o + i]
  BY <1>1, PieceProperties, o + d \in Nat, o <= o + d, (o + d) - o = d
<1>. HIDE DEF new, old
<1>4. o + Len(s) <= Len(new)
  BY <1>1, <1>2
<1>5. /\ back \in Seq(Char)
      /\ Len(back) = Len(new) - Len(s) + Len(old)
      /\ \A i \in 1..o : back[i] = new[i]
      /\ \A i \in (o + 1)..(o + Len(old)) : back[i] = old[i - o]
      /\ \A i \in (o + Len(old) + 1)..(Len(new) - Len(s) + Len(old)) :
            back[i] = new[i + Len(s) - Len(old)]
  <2>1. new \in Seq(Char) /\ old \in Seq(Char) /\ Len(s) \in Nat
    BY <1>1, <1>2, <1>3
  <2>2. IsCut(back, new, o, Len(s), old)
    BY <2>1, <1>4, CutProperties
  <2>. QED
    BY <2>2 DEF IsCut
<1>. HIDE DEF back
<1>6. Len(back) = Len(t)
  BY <1>1, <1>2, <1>3, <1>5
<1>7. ASSUME NEW i \in 1..Len(back)
      PROVE  back[i] = t[i]
  <2>1. CASE i <= o
    BY <2>1, <1>2, <1>5
  <2>2. CASE o < i /\ i <= o + d
    <3>1. i - o \in 1..d /\ o + (i - o) = i /\ i \in (o + 1)..(o + d)
      BY <2>2
    <3>2. back[i] = old[i - o] /\ old[i - o] = t[o + (i - o)]
      BY <3>1, <1>3, <1>5
    <3>. QED
      BY <3>1, <3>2
  <2>3. CASE o + d < i
    <3>1. back[i] = new[i + Len(s) - d]
      BY <2>3, <1>1, <1>2, <1>3, <1>5, <1>6
    <3>2. i + Len(s) - d \in (o + Len(s) + 1)..(Len(t) - d + Len(s))
      BY <2>3, <1>1, <1>6
    <3>3. new[i + Len(s) - d] = t[(i + Len(s) - d) + d - Len(s)]
      BY <3>2, <1>2
    <3>4. (i + Len(s) - d) + d - Len(s) = i
      BY <1>1
    <3>. QED
      BY <3>1, <3>3, <3>4
  <2>. QED
    BY <2>1, <2>2, <2>3, <1>1, <1>6
<1>8. back = t
  BY <1>5, <1>6, <1>7, SeqEqual
<1>. QED
  BY <1>8 DEF PutBack, back, new, old

\* Replacements of two parts of a text that do not overlap can be done in any
\* order, if the second part is looked for where the first one has moved it
InAnyOrder(t, o, d, r, p, e, s) ==
    Cut(Cut(t, p, e, s), o, d, r) = Cut(Cut(t, o, d, r), p - d + Len(r), e, s)

LEMMA CutsCommute ==
    ASSUME NEW t \in Seq(Char), NEW r \in Seq(Char), NEW s \in Seq(Char),
           NEW o \in Nat, NEW d \in Nat, NEW p \in Nat, NEW e \in Nat,
           o + d <= p, p + e <= Len(t)
    PROVE  InAnyOrder(t, o, d, r, p, e, s)
<1>. DEFINE late == Cut(t, p, e, s)
            early == Cut(t, o, d, r)
            moved == p - d + Len(r)
            one == Cut(late, o, d, r)
            other == Cut(early, moved, e, s)
            L == Len(t) - d + Len(r) - e + Len(s)
<1>1. Len(t) \in Nat /\ Len(r) \in Nat /\ Len(s) \in Nat
  OBVIOUS
<1>2. IsCut(late, t, p, e, s)
  BY CutProperties
<1>3. IsCut(early, t, o, d, r)
  BY <1>1, CutProperties, o + d <= Len(t)
<1>4. moved \in Nat /\ moved = p - d + Len(r) /\ o + Len(r) <= moved
  BY <1>1
<1>. HIDE DEF late, early, moved
<1>5. IsCut(one, late, o, d, r)
  <2>1. late \in Seq(Char) /\ o + d <= Len(late)
    BY <1>1, <1>2 DEF IsCut
  <2>. QED
    BY <2>1, CutProperties
<1>6. IsCut(other, early, moved, e, s)
  <2>1. early \in Seq(Char) /\ moved + e <= Len(early)
    BY <1>1, <1>3, <1>4 DEF IsCut
  <2>. QED
    BY <2>1, <1>4, CutProperties
<1>. HIDE DEF one, other
<1>7. /\ Len(late) = Len(t) - e + Len(s)
      /\ \A i \in 1..p : late[i] = t[i]
      /\ \A i \in (p + 1)..(p + Len(s)) : late[i] = s[i - p]
      /\ \A i \in (p + Len(s) + 1)..(Len(t) - e + Len(s)) : late[i] = t[i + e - Len(s)]
  BY <1>2 DEF IsCut
<1>8. /\ Len(early) = Len(t) - d + Len(r)
      /\ \A i \in 1..o : early[i] = t[i]
      /\ \A i \in (o + 1)..(o + Len(r)) : early[i] = r[i - o]
      /\ \A i \in (o + Len(r) + 1)..(Len(t) - d + Len(r)) : early[i] = t[i + d - Len(r)]
  BY <1>3 DEF IsCut
<1>9. /\ one \in Seq(Char) /\ Len(one) = Len(late) - d + Len(r)
      /\ \A i \in 1..o : one[i] = late[i]
      /\ \A i \in (o + 1)..(o + Len(r)) : one[i] = r[i - o]
      /\ \A i \in (o + Len(r) + 1)..(Len(late) - d + Len(r)) : one[i] = late[i + d - Len(r)]
  BY <1>5 DEF IsCut
<1>10. /\ other \in Seq(Char) /\ Len(other) = Len(early) - e + Len(s)
       /\ \A i \in 1..moved : other[i] = early[i]
       /\ \A i \in (moved + 1)..(moved + Len(s)) : other[i] = s[i - moved]
       /\ \A i \in (moved + Len(s) + 1)..(Len(early) - e + Len(s)) :
             other[i] = early[i + e - Len(s)]
  BY <1>6 DEF IsCut
<1>11. Len(one) = L /\ Len(other) = L
  BY <1>1, <1>7, <1>8, <1>9, <1>10
<1>12. ASSUME NEW i \in 1..L
       PROVE  one[i] = other[i]
  <2>1. CASE i <= o
    <3>1. i \in 1..o /\ i \in 1..p /\ i \in 1..moved
      BY <2>1, <1>1, <1>4
    <3>. QED
      BY <3>1, <1>7, <1>8, <1>9, <1>10
  <2>2. CASE o < i /\ i <= o + Len(r)
    <3>1. i \in (o + 1)..(o + Len(r)) /\ i \in 1..moved
      BY <2>2, <1>1, <1>4
    <3>. QED
      BY <3>1, <1>8, <1>9, <1>10
  <2>3. CASE o + Len(r) < i
    <3>1. i \in (o + Len(r) + 1)..(Len(late) - d + Len(r))
      BY <2>3, <1>1, <1>7
    <3>2. one[i] = late[i + d - Len(r)]
      BY <3>1, <1>9
    <3>3. CASE i <= moved
      <4>1. i + d - Len(r) \in 1..p
        BY <3>3, <2>3, <1>1, <1>4
      <4>2. i \in (o + Len(r) + 1)..(Len(t) - d + Len(r)) /\ i \in 1..moved
        BY <3>3, <2>3, <1>1, <1>4
      <4>. QED
        BY <4>1, <4>2, <3>2, <1>7, <1>8, <1>10
    <3>4. CASE moved < i /\ i <= moved + Len(s)
      <4>1. /\ i + d - Len(r) \in (p + 1)..(p + Len(s))
            /\ (i + d - Len(r)) - p = i - moved
            /\ i \in (moved + 1)..(moved + Len(s))
        BY <3>4, <1>1, <1>4
      <4>. QED
        BY <4>1, <3>2, <1>7, <1>10
    <3>5. CASE moved + Len(s) < i
      <4>1. /\ i + d - Len(r) \in (p + Len(s) + 1)..(Len(t) - e + Len(s))
            /\ i \in (moved + Len(s) + 1)..(Len(early) - e + Len(s))
            /\ i + e - Len(s) \in (o + Len(r) + 1)..(Len(t) - d + Len(r))
            /\ (i + d - Len(r)) + e - Len(s) = (i + e - Len(s)) + d - Len(r)
        BY <3>5, <1>1, <1>4, <1>8
      <4>2. one[i] = t[(i + d - Len(r)) + e - Len(s)]
        BY <4>1, <3>2, <1>7
      <4>3. other[i] = early[i + e - Len(s)]
        BY <4>1, <1>10
      <4>4. early[i + e - Len(s)] = t[(i + e - Len(s)) + d - Len(r)]
        BY <4>1, <1>8
      <4>. QED
        BY <4>1, <4>2, <4>3, <4>4
    <3>6. i \in Nat /\ moved \in Nat /\ Len(s) \in Nat
      BY <1>1, <1>4
    <3>. QED
      BY <3>3, <3>4, <3>5, <3>6
  <2>. QED
    BY <2>1, <2>2, <2>3, <1>1
<1>13. one = other
  BY <1>9, <1>10, <1>11, <1>12, SeqEqual
<1>. QED
  BY <1>13 DEF InAnyOrder, one, other, late, early, moved

\* The empty text
LEMMA NoText ==
    /\ <<>> \in Seq(Char) /\ Len(<<>>) = 0
    /\ \A t \in Seq(Char), o \in Nat : SubSeq(t, o + 1, o) = <<>>
<1>1. <<>> \in Seq(Char) /\ Len(<<>>) = 0
  BY EmptySeq
<1>2. ASSUME NEW t \in Seq(Char), NEW o \in Nat
      PROVE  SubSeq(t, o + 1, o) = <<>>
  BY SubSeqEmpty
<1>. QED
  BY <1>1, <1>2

\* What is inserted is where it was inserted
LEMMA InsertedIsThere ==
    ASSUME NEW t \in Seq(Char), NEW s \in Seq(Char),
           NEW o \in Nat, NEW d \in Nat, o + d <= Len(t)
    PROVE  SubSeq(Cut(t, o, d, s), o + 1, o + Len(s)) = s
<1>. DEFINE w == Cut(t, o, d, s)
            part == SubSeq(w, o + 1, o + Len(s))
<1>1. Len(t) \in Nat /\ Len(s) \in Nat
  OBVIOUS
<1>2. IsCut(w, t, o, d, s)
  BY CutProperties
<1>. HIDE DEF w
<1>3. /\ w \in Seq(Char) /\ o + Len(s) <= Len(w)
      /\ \A i \in (o + 1)..(o + Len(s)) : w[i] = s[i - o]
  BY <1>1, <1>2 DEF IsCut
<1>4. /\ part \in Seq(Char) /\ Len(part) = (o + Len(s)) - o
      /\ \A i \in 1..((o + Len(s)) - o) : part[i] = w[o + i]
  BY <1>1, <1>3, PieceProperties, o + Len(s) \in Nat, o <= o + Len(s)
<1>. HIDE DEF part
<1>5. Len(part) = Len(s)
  BY <1>1, <1>4
<1>6. ASSUME NEW i \in 1..Len(part)
      PROVE  part[i] = s[i]
  <2>1. o + i \in (o + 1)..(o + Len(s)) /\ (o + i) - o = i /\ i \in 1..((o + Len(s)) - o)
    BY <1>1, <1>5
  <2>2. part[i] = w[o + i] /\ w[o + i] = s[(o + i) - o]
    BY <2>1, <1>3, <1>4
  <2>. QED
    BY <2>1, <2>2
<1>7. part = s
  BY <1>4, <1>5, <1>6, SeqEqual
<1>. QED
  BY <1>7 DEF part, w

\* The block of k characters at p moved to q in one text: where it is when room
\* has been made for it, where it is in the end, and that the text is the one
\* that taking it out first gives
MovesRight(t, p, q, k) ==
    LET block == SubSeq(t, p + 1, p + k)
        roomy == Cut(t, q, 0, block)
        from == Shift(p, q, 0, k)
        to == Shift(q, from, k, 0)
    IN  /\ from \in Nat /\ to \in Nat /\ from + k <= Len(t) + k /\ to + k <= Len(t)
        /\ SubSeq(roomy, from + 1, from + k) = block
        /\ Cut(roomy, from, k, <<>>) = Cut(Cut(t, p, k, <<>>), to, 0, block)
        /\ Shift(to, from, 0, k) = q
        /\ ~(to < from /\ from < to + k)

LEMMA MovedInOneText ==
    ASSUME NEW t \in Seq(Char), NEW p \in Nat, NEW q \in Nat, NEW k \in Nat,
           p + k <= Len(t), q <= Len(t), ~(p < q /\ q < p + k)
    PROVE  MovesRight(t, p, q, k)
<1>. DEFINE block == SubSeq(t, p + 1, p + k)
            roomy == Cut(t, q, 0, block)
            from == Shift(p, q, 0, k)
            to == Shift(q, from, k, 0)
<1>1. Len(t) \in Nat /\ p + k \in Nat /\ p <= p + k /\ (p + k) - p = k
  OBVIOUS
<1>2. block \in Seq(Char) /\ Len(block) = k /\ \A i \in 1..k : block[i] = t[p + i]
  BY <1>1, PieceProperties
<1>. HIDE DEF block
<1>3. q + 0 <= Len(t)
  OBVIOUS
<1>4. IsCut(roomy, t, q, 0, block)
  BY <1>2, <1>3, CutProperties
<1>5. (q <= p /\ from = p + k /\ to = q) \/ (p + k <= q /\ from = p /\ to = q - k)
  BY DEF Shift
<1>6. /\ from \in Nat /\ to \in Nat /\ from + k <= Len(t) + k /\ to + k <= Len(t)
      /\ Shift(to, from, 0, k) = q
      /\ ~(to < from /\ from < to + k)
  <2>. HIDE DEF from, to
  <2>1. /\ from \in Nat /\ to \in Nat /\ from + k <= Len(t) + k /\ to + k <= Len(t)
        /\ ~(to < from /\ from < to + k)
    BY <1>1, <1>5
  <2>2. CASE q <= p /\ from = p + k /\ to = q
    <3>1. (to < from /\ ~(to >= from + k)) \/ (to >= from /\ k = 0)
      BY <2>2
    <3>2. from \in Nat /\ to \in Nat
      BY <2>1
    <3>3. Shift(to, from, 0, k) = to
      BY <3>1, <3>2 DEF Shift
    <3>. QED
      BY <2>1, <2>2, <3>3
  <2>3. CASE p + k <= q /\ from = p /\ to = q - k
    <3>1. to >= from + 0 /\ to - 0 + k = q
      BY <2>3
    <3>2. Shift(to, from, 0, k) = q
      BY <2>1, <3>1 DEF Shift
    <3>. QED
      BY <2>1, <3>2
  <2>. QED
    BY <1>5, <2>1, <2>2, <2>3
<1>7. SubSeq(roomy, from + 1, from + k) = block
  <2>. HIDE DEF from, to, roomy
  <2>. DEFINE part == SubSeq(roomy, from + 1, from + k)
  <2>1. /\ roomy \in Seq(Char) /\ Len(roomy) = Len(t) + k
        /\ \A i \in 1..q : roomy[i] = t[i]
        /\ \A i \in (q + k + 1)..(Len(t) + k) : roomy[i] = t[i - k]
    <3>1. Len(t) - 0 + Len(block) = Len(t) + k /\ q + Len(block) + 1 = q + k + 1
      BY <1>1, <1>2
    <3>2. \A i \in (q + k + 1)..(Len(t) + k) : i + 0 - Len(block) = i - k
      BY <1>1, <1>2
    <3>. QED
      BY <1>4, <3>1, <3>2 DEF IsCut
  <2>2. /\ part \in Seq(Char) /\ Len(part) = (from + k) - from
        /\ \A i \in 1..((from + k) - from) : part[i] = roomy[from + i]
    BY <1>1, <1>6, <2>1, PieceProperties, from + k \in Nat, from <= from + k
  <2>. HIDE DEF part
  <2>3. Len(part) = k
    BY <1>6, <2>2
  <2>4. ASSUME NEW i \in 1..k
        PROVE  part[i] = block[i]
    <3>1. part[i] = roomy[from + i]
      BY <1>6, <2>2, SMTT(30)
    <3>2. CASE q <= p /\ from = p + k
      <4>1. from + i \in (q + k + 1)..(Len(t) + k) /\ (from + i) - k = p + i
        BY <1>1, <3>2
      <4>. QED
        BY <4>1, <3>1, <2>1, <1>2
    <3>3. CASE p + k <= q /\ from = p
      <4>1. from + i \in 1..q /\ from + i = p + i
        BY <1>1, <3>3
      <4>. QED
        BY <4>1, <3>1, <2>1, <1>2
    <3>. QED
      BY <1>5, <3>2, <3>3
  <2>5. part = block
    BY <1>2, <2>2, <2>3, <2>4, SeqEqual
  <2>. QED
    BY <2>5 DEF part
<1>8. Cut(roomy, from, k, <<>>) = Cut(Cut(t, p, k, <<>>), to, 0, block)
  <2>. DEFINE none == <<>>
  <2>1. none \in Seq(Char) /\ Len(none) = 0
    BY NoText
  <2>. HIDE DEF none, from, to
  <2>2. CASE q <= p /\ from = p + k /\ to = q
    <3>1. q + 0 <= p /\ p - 0 + Len(block) = from
      BY <1>1, <1>2, <2>2
    <3>2. Cut(Cut(t, p, k, none), q, 0, block)
              = Cut(Cut(t, q, 0, block), p - 0 + Len(block), k, none)
      <4>1. \A z \in Nat : q + z <= p => InAnyOrder(t, q, z, block, p, k, none)
        BY <1>2, <2>1, CutsCommute
      <4>2. InAnyOrder(t, q, 0, block, p, k, none)
        BY <3>1, <4>1
      <4>. QED
        BY <4>2 DEF InAnyOrder
    <3>. QED
      BY <2>2, <3>1, <3>2 DEF none
  <2>3. CASE p + k <= q /\ from = p /\ to = q - k
    <3>1. q - k + Len(none) = to
      BY <1>1, <2>1, <2>3
    <3>2. Cut(Cut(t, q, 0, block), p, k, none)
              = Cut(Cut(t, p, k, none), q - k + Len(none), 0, block)
      <4>1. \A z \in Nat : q + z <= Len(t) => InAnyOrder(t, p, k, none, q, z, block)
        BY <1>2, <2>1, <2>3, CutsCommute
      <4>2. InAnyOrder(t, p, k, none, q, 0, block)
        BY <1>3, <4>1
      <4>. QED
        BY <4>2 DEF InAnyOrder
    <3>. QED
      BY <2>3, <3>1, <3>2 DEF none
  <2>. QED
    BY <1>5, <2>2, <2>3
<1>. QED
  BY <1>6, <1>7, <1>8 DEF MovesRight, block

-----------------------------------------------------------------------------
(* A replacement in a buffer *)

\* An editor with the buffers of e, of which b has the text t
WithText(f, e, b, t) ==
    /\ f \in Editor
    /\ f.table = e.table
    /\ Len(f.buffers) = Len(e.buffers)
    /\ \A c \in 1..Len(e.buffers) :
          /\ NameOf(f, c) = NameOf(e, c)
          /\ f.buffers[c].open = e.buffers[c].open
          /\ TextOf(f, c) = IF c = b THEN t ELSE TextOf(e, c)

\* A marker in a text stays in it
LEMMA ShiftStays ==
    ASSUME NEW n \in Nat, NEW p \in 0..n, NEW o \in Nat, NEW d \in Nat, NEW l \in Nat,
           o + d <= n
    PROVE  Shift(p, o, d, l) \in 0..(n - d + l)
BY DEF Shift

\* ... and before the beginning it never is
LEMMA ShiftType ==
    ASSUME NEW p \in Nat, NEW o \in Nat, NEW d \in Nat, NEW l \in Nat
    PROVE  Shift(p, o, d, l) \in Nat
BY DEF Shift

\* The parts of a buffer
LEMMA BufferType ==
    ASSUME NEW e \in Editor, NEW b \in 1..Len(e.buffers)
    PROVE  /\ e.buffers \in Seq(BufferRecord) /\ Len(e.buffers) \in Nat
           /\ e.buffers[b] \in BufferRecord
           /\ TextOf(e, b) \in Seq(Char) /\ Len(TextOf(e, b)) \in Nat
           /\ NameOf(e, b) \in Name
           /\ e.buffers[b].open \in BOOLEAN
<1>1. e.buffers \in Seq(BufferRecord)
  BY DEF Editor
<1>2. Len(e.buffers) \in Nat /\ e.buffers[b] \in BufferRecord
  BY <1>1, ElementOfSeq
<1>3. TextOf(e, b) \in Seq(Char) /\ NameOf(e, b) \in Name /\ e.buffers[b].open \in BOOLEAN
  BY <1>2 DEF TextOf, NameOf, BufferRecord
<1>. QED
  BY <1>1, <1>2, <1>3

\* replaceStringInEditorBuffer() changes one text, and markers in it
LEMMA ReplacedProperties ==
    ASSUME NEW e \in Editor, NEW b \in 1..Len(e.buffers),
           NEW o \in 0..Len(TextOf(e, b)), NEW size \in Nat, NEW s \in Seq(Char)
    PROVE  LET d == Clamped(TextOf(e, b), o, size)
               f == Replaced(e, b, o, size, s)
           IN  /\ WithText(f, e, b, Cut(TextOf(e, b), o, d, s))
               /\ \A m \in Marker : f.markers[m] =
                     IF e.markers[m].buffer = b
                     THEN [e.markers[m] EXCEPT !.offset = Shift(@, o, d, Len(s))]
                     ELSE e.markers[m]
<1>. DEFINE d == Clamped(TextOf(e, b), o, size)
            new == Cut(TextOf(e, b), o, d, s)
            record == [e.buffers[b] EXCEPT !.text = new, !.modified = TRUE]
            placed == [m \in Marker |->
                          IF e.markers[m].buffer = b
                          THEN [e.markers[m] EXCEPT !.offset = Shift(@, o, d, Len(s))]
                          ELSE e.markers[m]]
            f == Replaced(e, b, o, size, s)
<1>1. /\ e.buffers \in Seq(BufferRecord) /\ Len(e.buffers) \in Nat
      /\ e.buffers[b] \in BufferRecord
      /\ TextOf(e, b) \in Seq(Char) /\ Len(TextOf(e, b)) \in Nat
  BY BufferType
<1>2. d \in Nat /\ o \in Nat /\ o + d <= Len(TextOf(e, b)) /\ Len(s) \in Nat
  <2>1. Len(s) \in Nat /\ o \in Nat
    BY <1>1
  <2>2. d \in Nat /\ o + d <= Len(TextOf(e, b))
    BY <1>1, ClampedProperties
  <2>. QED
    BY <2>1, <2>2
<1>. HIDE DEF d
<1>3. new \in Seq(Char)
  <2>1. IsCut(new, TextOf(e, b), o, d, s)
    BY <1>1, <1>2, CutProperties DEF new
  <2>. QED
    BY <2>1 DEF IsCut
<1>4. f = [e EXCEPT !.buffers = [e.buffers EXCEPT ![b] = record], !.markers = placed]
  BY DEF Replaced, TextOf, d
<1>. HIDE DEF new
<1>5. /\ record \in BufferRecord /\ record.text = new
      /\ record.fileName = e.buffers[b].fileName /\ record.open = e.buffers[b].open
  BY <1>1, <1>3 DEF BufferRecord
<1>6. placed \in [Marker -> Place]
  <2>. SUFFICES ASSUME NEW m \in Marker
                PROVE  (IF e.markers[m].buffer = b
                        THEN [e.markers[m] EXCEPT !.offset = Shift(@, o, d, Len(s))]
                        ELSE e.markers[m]) \in Place
    OBVIOUS
  <2>1. e.markers[m] \in Place
    BY DEF Editor
  <2>. DEFINE offset == Shift(e.markers[m].offset, o, d, Len(s))
  <2>2. offset \in Nat
    BY <2>1, <1>2, ShiftType DEF Place
  <2>. HIDE DEF offset
  <2>3. [e.markers[m] EXCEPT !.offset = offset] \in Place
    BY <2>1, <2>2 DEF Place
  <2>. QED
    BY <2>1, <2>3 DEF offset
<1>. HIDE DEF record, placed, f
<1>7. /\ [e.buffers EXCEPT ![b] = record] \in Seq(BufferRecord)
      /\ Len([e.buffers EXCEPT ![b] = record]) = Len(e.buffers)
      /\ \A c \in 1..Len(e.buffers) :
            [e.buffers EXCEPT ![b] = record][c] = IF c = b THEN record ELSE e.buffers[c]
  BY <1>1, <1>5, ExceptSeq
<1>. DEFINE buffers == [e.buffers EXCEPT ![b] = record]
<1>. HIDE DEF buffers
<1>8. f = [e EXCEPT !.buffers = buffers, !.markers = placed]
  BY <1>4 DEF buffers
<1>9. f \in Editor /\ f.table = e.table /\ f.buffers = buffers /\ f.markers = placed
  BY <1>6, <1>7, <1>8 DEF Editor, buffers
<1>10. WithText(f, e, b, new)
  BY <1>5, <1>7, <1>9 DEF WithText, TextOf, NameOf, buffers
<1>11. \A m \in Marker : f.markers[m] =
          IF e.markers[m].buffer = b
          THEN [e.markers[m] EXCEPT !.offset = Shift(@, o, d, Len(s))]
          ELSE e.markers[m]
  BY <1>9 DEF placed
<1>. QED
  BY <1>10, <1>11 DEF f, new, d

\* Every marker is in its text, the end included
MarkersIn(e) ==
    \A m \in Marker : /\ e.markers[m].buffer \in 1..Len(e.buffers)
                      /\ e.markers[m].offset <= Len(TextOf(e, e.markers[m].buffer))

\* A replacement keeps the markers in the text, those in what is deleted as well
LEMMA ReplacedMarkers ==
    ASSUME NEW e \in Editor, NEW b \in 1..Len(e.buffers), MarkersIn(e),
           NEW o \in 0..Len(TextOf(e, b)), NEW size \in Nat, NEW s \in Seq(Char)
    PROVE  MarkersIn(Replaced(e, b, o, size, s))
<1>. DEFINE t == TextOf(e, b)
            d == Clamped(t, o, size)
            f == Replaced(e, b, o, size, s)
<1>1. t \in Seq(Char) /\ Len(t) \in Nat /\ Len(s) \in Nat /\ o \in Nat
  BY BufferType
<1>2. d \in Nat /\ o + d <= Len(t)
  BY <1>1, ClampedProperties
<1>3. /\ WithText(f, e, b, Cut(t, o, d, s))
      /\ \A m \in Marker : f.markers[m] =
            IF e.markers[m].buffer = b
            THEN [e.markers[m] EXCEPT !.offset = Shift(@, o, d, Len(s))]
            ELSE e.markers[m]
  BY ReplacedProperties
<1>. HIDE DEF f, d, t
<1>4. Len(Cut(t, o, d, s)) = Len(t) - d + Len(s)
  <2>1. IsCut(Cut(t, o, d, s), t, o, d, s)
    BY <1>1, <1>2, CutProperties
  <2>. QED
    BY <2>1 DEF IsCut
<1>5. SUFFICES ASSUME NEW m \in Marker
               PROVE  /\ f.markers[m].buffer \in 1..Len(f.buffers)
                      /\ f.markers[m].offset <= Len(TextOf(f, f.markers[m].buffer))
  BY DEF MarkersIn, f
<1>6. /\ e.markers[m] \in Place /\ e.markers[m].buffer \in 1..Len(e.buffers)
      /\ e.markers[m].offset <= Len(TextOf(e, e.markers[m].buffer))
  BY DEF MarkersIn, Editor
<1>7. CASE e.markers[m].buffer = b
  <2>. DEFINE offset == Shift(e.markers[m].offset, o, d, Len(s))
  <2>1. e.markers[m].offset \in 0..Len(t)
    BY <1>1, <1>6, <1>7 DEF Place, t
  <2>2. offset \in 0..(Len(t) - d + Len(s))
    BY <1>1, <1>2, <2>1, ShiftStays
  <2>. HIDE DEF offset
  <2>3. f.markers[m] = [e.markers[m] EXCEPT !.offset = offset]
    BY <1>3, <1>7 DEF offset
  <2>4. f.markers[m].buffer = b /\ f.markers[m].offset = offset
    BY <1>6, <1>7, <2>3 DEF Place
  <2>5. TextOf(f, b) = Cut(t, o, d, s) /\ Len(f.buffers) = Len(e.buffers)
    BY <1>3 DEF WithText
  <2>. QED
    BY <1>1, <1>2, <1>4, <2>2, <2>4, <2>5
<1>8. CASE e.markers[m].buffer # b
  BY <1>3, <1>6, <1>8 DEF WithText
<1>. QED
  BY <1>7, <1>8

-----------------------------------------------------------------------------
(* A block that is moved *)

\* An editor with the buffers of e, and what the text of each is
SameBuffers(f, e) ==
    /\ f \in Editor
    /\ f.table = e.table
    /\ Len(f.buffers) = Len(e.buffers)
    /\ \A c \in 1..Len(e.buffers) :
          NameOf(f, c) = NameOf(e, c) /\ f.buffers[c].open = e.buffers[c].open

\* Such an editor has the same buffers
LEMMA WithTextSame ==
    ASSUME NEW e, NEW f, NEW b, NEW t, WithText(f, e, b, t)
    PROVE  /\ SameBuffers(f, e)
           /\ \A c \in 1..Len(e.buffers) : TextOf(f, c) = IF c = b THEN t ELSE TextOf(e, c)
BY DEF WithText, SameBuffers

\* And so has another one made of it
LEMMA SameBuffersTransitive ==
    ASSUME NEW e, NEW f, NEW g, SameBuffers(f, e), SameBuffers(g, f)
    PROVE  SameBuffers(g, e)
BY DEF SameBuffers

\* A block of k characters at p, and a place q for it
Block(e, p, q, k) ==
    /\ p \in Place /\ q \in Place /\ k \in Nat
    /\ p.buffer \in 1..Len(e.buffers) /\ q.buffer \in 1..Len(e.buffers)
    /\ p.offset + k <= Len(TextOf(e, p.buffer))
    /\ q.offset <= Len(TextOf(e, q.buffer))
    /\ ~IntoItself(p, q, k)

BlockOf(e, p, k) == SubSeq(TextOf(e, p.buffer), p.offset + 1, p.offset + k)

\* The text of c with the block in, before it is taken out
WithBlock(e, p, q, k, c) ==
    IF c = q.buffer THEN Cut(TextOf(e, c), q.offset, 0, BlockOf(e, p, k)) ELSE TextOf(e, c)

\* moveBlockInEditorBuffer() makes room for the block, then takes it out
LEMMA MovedProperties ==
    ASSUME NEW e \in Editor, NEW p, NEW q, NEW k, Block(e, p, q, k)
    PROVE  LET f == Moved(e, p, q, k)
               from == Displaced(p, q, k)
           IN  /\ SameBuffers(f, e)
               /\ \A c \in 1..Len(e.buffers) :
                     TextOf(f, c) = IF c = p.buffer
                                    THEN Cut(WithBlock(e, p, q, k, c), from.offset, k, <<>>)
                                    ELSE WithBlock(e, p, q, k, c)
               /\ MarkersIn(e) => MarkersIn(f)
<1>. DEFINE block == BlockOf(e, p, k)
            from == Displaced(p, q, k)
            copied == Replaced(e, q.buffer, q.offset, 0, block)
            placed == [m \in Marker |->
                          IF InBlock(copied.markers[m], from, k)
                          THEN [buffer |-> q.buffer,
                                offset |-> q.offset + copied.markers[m].offset - from.offset]
                          ELSE copied.markers[m]]
            taken == [copied EXCEPT !.markers = placed]
            f == Replaced(taken, from.buffer, from.offset, k, <<>>)
<1>1. /\ p.buffer \in 1..Len(e.buffers) /\ q.buffer \in 1..Len(e.buffers)
      /\ p.buffer \in Nat \ {0} /\ q.buffer \in Nat \ {0}
      /\ p.offset \in Nat /\ q.offset \in Nat /\ k \in Nat
      /\ p.offset + k <= Len(TextOf(e, p.buffer))
      /\ q.offset <= Len(TextOf(e, q.buffer))
      /\ p.buffer = q.buffer => ~(p.offset < q.offset /\ q.offset < p.offset + k)
  BY DEF Block, Place, IntoItself
<1>2. /\ TextOf(e, p.buffer) \in Seq(Char) /\ Len(TextOf(e, p.buffer)) \in Nat
      /\ TextOf(e, q.buffer) \in Seq(Char) /\ Len(TextOf(e, q.buffer)) \in Nat
  BY <1>1, BufferType
<1>3. block \in Seq(Char) /\ Len(block) = k
  <2>1. p.offset + k \in Nat /\ p.offset <= p.offset + k /\ (p.offset + k) - p.offset = k
    BY <1>1
  <2>. QED
    BY <1>1, <1>2, <2>1, PieceProperties, SMTT(30) DEF BlockOf
<1>4. from.buffer = p.buffer /\ from.offset \in Nat
  <2>1. CASE p.buffer = q.buffer
    <3>1. from = [p EXCEPT !.offset = Shift(p.offset, q.offset, 0, k)]
      BY <2>1 DEF Displaced
    <3>2. Shift(p.offset, q.offset, 0, k) \in Nat
      BY <1>1, ShiftType
    <3>. QED
      BY <3>1, <3>2 DEF Block, Place
  <2>2. CASE p.buffer # q.buffer
    BY <1>1, <2>2 DEF Displaced
  <2>. QED
    BY <2>1, <2>2
<1>. HIDE DEF block, from
<1>5. /\ WithText(copied, e, q.buffer, Cut(TextOf(e, q.buffer), q.offset, 0, block))
      /\ copied \in Editor
  <2>1. Clamped(TextOf(e, q.buffer), q.offset, 0) = 0
    BY <1>1, <1>2 DEF Clamped
  <2>2. q.offset \in 0..Len(TextOf(e, q.buffer)) /\ 0 \in Nat
    BY <1>1, <1>2
  <2>3. WithText(copied, e, q.buffer,
            Cut(TextOf(e, q.buffer), q.offset, Clamped(TextOf(e, q.buffer), q.offset, 0), block))
    BY <1>1, <1>3, <2>2, ReplacedProperties
  <2>. QED
    BY <2>1, <2>3 DEF WithText
<1>. HIDE DEF copied
<1>6. taken \in Editor /\ taken.buffers = copied.buffers /\ taken.table = copied.table
  <2>1. ASSUME NEW m \in Marker
        PROVE  (IF InBlock(copied.markers[m], from, k)
                THEN [buffer |-> q.buffer,
                      offset |-> q.offset + copied.markers[m].offset - from.offset]
                ELSE copied.markers[m]) \in Place
    <3>1. copied.markers[m] \in Place
      BY <1>5 DEF Editor
    <3>. DEFINE there == q.offset + copied.markers[m].offset - from.offset
    <3>2. CASE InBlock(copied.markers[m], from, k)
      <4>1. there \in Nat
        <5>1. copied.markers[m].offset \in Nat
          BY <3>1 DEF Place
        <5>2. copied.markers[m].offset >= from.offset
          BY <3>2 DEF InBlock
        <5>. QED
          BY <1>1, <1>4, <5>1, <5>2, SMTT(30)
      <4>. HIDE DEF there
      <4>2. [buffer |-> q.buffer, offset |-> there] \in Place
        BY <1>1, <4>1 DEF Place
      <4>. QED
        BY <3>2, <4>2 DEF there
    <3>3. CASE ~InBlock(copied.markers[m], from, k)
      BY <3>1, <3>3
    <3>. QED
      BY <3>2, <3>3
  <2>2. placed \in [Marker -> Place]
    BY <2>1
  <2>. HIDE DEF placed
  <2>. QED
    BY <1>5, <2>2 DEF Editor
<1>14. taken.markers = placed
  BY <1>5 DEF Editor
<1>. HIDE DEF taken
<1>7. /\ SameBuffers(taken, e)
      /\ \A c \in 1..Len(e.buffers) : TextOf(taken, c) = WithBlock(e, p, q, k, c)
  <2>1. /\ SameBuffers(copied, e)
        /\ \A c \in 1..Len(e.buffers) :
              TextOf(copied, c) = IF c = q.buffer
                                  THEN Cut(TextOf(e, q.buffer), q.offset, 0, block)
                                  ELSE TextOf(e, c)
    BY <1>5, WithTextSame
  <2>. QED
    BY <1>6, <2>1 DEF SameBuffers, TextOf, NameOf, WithBlock, block
<1>8. /\ from.offset + k <= Len(TextOf(taken, p.buffer))
      /\ TextOf(taken, p.buffer) \in Seq(Char) /\ Len(TextOf(taken, p.buffer)) \in Nat
      /\ p.buffer \in 1..Len(taken.buffers)
  <2>1. p.buffer \in 1..Len(taken.buffers)
    BY <1>1, <1>7 DEF SameBuffers
  <2>2. TextOf(taken, p.buffer) \in Seq(Char) /\ Len(TextOf(taken, p.buffer)) \in Nat
    BY <1>6, <2>1, BufferType
  <2>3. CASE p.buffer = q.buffer
    <3>1. from.offset = Shift(p.offset, q.offset, 0, k)
      BY <1>1, <2>3 DEF Displaced, Block, Place, from
    <3>2. from.offset <= p.offset + k
      BY <1>1, <2>3, <3>1 DEF Shift
    <3>3. TextOf(taken, p.buffer) = Cut(TextOf(e, q.buffer), q.offset, 0, block)
      BY <1>1, <1>7, <2>3 DEF WithBlock, block
    <3>4. q.offset + 0 <= Len(TextOf(e, q.buffer)) /\ 0 \in Nat
      BY <1>1, <1>2
    <3>5. IsCut(TextOf(taken, p.buffer), TextOf(e, q.buffer), q.offset, 0, block)
      BY <1>1, <1>2, <1>3, <3>3, <3>4, CutProperties
    <3>6. Len(TextOf(taken, p.buffer)) = Len(TextOf(e, q.buffer)) - 0 + Len(block)
      BY <3>5 DEF IsCut
    <3>7. from.offset + k <= Len(TextOf(e, q.buffer)) + k
      <4>1. MovesRight(TextOf(e, q.buffer), p.offset, q.offset, k)
        BY <1>1, <1>2, <2>3, MovedInOneText
      <4>. QED
        BY <3>1, <4>1 DEF MovesRight
    <3>. QED
      BY <1>2, <1>3, <2>1, <2>2, <3>6, <3>7
  <2>4. CASE p.buffer # q.buffer
    <3>1. from = p
      BY <2>4 DEF Displaced, from
    <3>2. TextOf(taken, p.buffer) = TextOf(e, p.buffer)
      BY <1>1, <1>7, <2>4 DEF WithBlock
    <3>. QED
      BY <1>1, <2>1, <2>2, <3>1, <3>2
  <2>. QED
    BY <2>3, <2>4
<1>9. WithText(f, taken, p.buffer, Cut(TextOf(taken, p.buffer), from.offset, k, <<>>))
  <2>1. Clamped(TextOf(taken, p.buffer), from.offset, k) = k
    BY <1>1, <1>4, <1>8 DEF Clamped
  <2>2. from.offset \in 0..Len(TextOf(taken, p.buffer))
    BY <1>1, <1>4, <1>8
  <2>3. WithText(f, taken, p.buffer,
            Cut(TextOf(taken, p.buffer), from.offset,
                Clamped(TextOf(taken, p.buffer), from.offset, k), <<>>))
    BY <1>1, <1>4, <1>6, <1>8, <2>2, NoText, ReplacedProperties
  <2>. QED
    BY <2>1, <2>3
<1>10. f = Moved(e, p, q, k)
  BY DEF Moved, f, taken, copied, block, from, BlockOf
<1>. HIDE DEF f
<1>11. /\ SameBuffers(f, taken)
       /\ \A c \in 1..Len(taken.buffers) :
             TextOf(f, c) = IF c = p.buffer
                            THEN Cut(TextOf(taken, p.buffer), from.offset, k, <<>>)
                            ELSE TextOf(taken, c)
  BY <1>9, WithTextSame
<1>12. SameBuffers(f, e)
  BY <1>7, <1>11, SameBuffersTransitive
<1>13. \A c \in 1..Len(e.buffers) :
          TextOf(f, c) = IF c = p.buffer
                         THEN Cut(WithBlock(e, p, q, k, c), from.offset, k, <<>>)
                         ELSE WithBlock(e, p, q, k, c)
  BY <1>7, <1>11 DEF SameBuffers
<1>15. ASSUME MarkersIn(e)
       PROVE  MarkersIn(f)
  <2>1. MarkersIn(copied)
    <3>1. q.offset \in 0..Len(TextOf(e, q.buffer)) /\ 0 \in Nat
      BY <1>1, <1>2
    <3>. QED
      BY <1>1, <1>3, <1>15, <3>1, ReplacedMarkers DEF copied
  <2>2. MarkersIn(taken)
    <3>. SUFFICES ASSUME NEW m \in Marker
                  PROVE  /\ taken.markers[m].buffer \in 1..Len(taken.buffers)
                         /\ taken.markers[m].offset <= Len(TextOf(taken, taken.markers[m].buffer))
      BY DEF MarkersIn
    <3>1. CASE InBlock(copied.markers[m], from, k)
      <4>. DEFINE there == q.offset + copied.markers[m].offset - from.offset
      <4>1. copied.markers[m].offset \in Nat
        BY <1>5 DEF Editor, Place
      <4>2. there \in Nat /\ there <= q.offset + k
        <5>. DEFINE at == copied.markers[m].offset
        <5>1. at >= from.offset /\ at < from.offset + k
          BY <3>1 DEF InBlock
        <5>2. at \in Nat /\ q.offset \in Nat /\ from.offset \in Nat /\ k \in Nat
          BY <1>1, <1>4, <4>1
        <5>. HIDE DEF at
        <5>3. q.offset + at - from.offset \in Nat /\ q.offset + at - from.offset <= q.offset + k
          BY <5>1, <5>2
        <5>. QED
          BY <5>3 DEF at
      <4>. HIDE DEF there
      <4>3. taken.markers[m].buffer = q.buffer /\ taken.markers[m].offset = there
        BY <1>14, <3>1 DEF there
      <4>4. TextOf(taken, q.buffer) = Cut(TextOf(e, q.buffer), q.offset, 0, block)
        BY <1>1, <1>7 DEF WithBlock, block
      <4>5. q.offset + 0 <= Len(TextOf(e, q.buffer)) /\ 0 \in Nat
        BY <1>1, <1>2
      <4>6. IsCut(TextOf(taken, q.buffer), TextOf(e, q.buffer), q.offset, 0, block)
        BY <1>1, <1>2, <1>3, <4>4, <4>5, CutProperties
      <4>7. Len(TextOf(taken, q.buffer)) = Len(TextOf(e, q.buffer)) + k
        BY <1>2, <1>3, <4>6 DEF IsCut
      <4>8. Len(taken.buffers) = Len(e.buffers)
        BY <1>7 DEF SameBuffers
      <4>. QED
        BY <1>1, <1>2, <4>2, <4>3, <4>7, <4>8
    <3>2. CASE ~InBlock(copied.markers[m], from, k)
      <4>1. taken.markers[m] = copied.markers[m]
        BY <1>14, <3>2
      <4>. QED
        BY <1>6, <2>1, <4>1 DEF MarkersIn, TextOf
    <3>. QED
      BY <3>1, <3>2
  <2>3. from.offset \in 0..Len(TextOf(taken, p.buffer))
    BY <1>1, <1>4, <1>8
  <2>. QED
    BY <1>1, <1>4, <1>6, <1>8, <2>2, <2>3, NoText, ReplacedMarkers DEF f
<1>. QED
  BY <1>10, <1>12, <1>13, <1>15 DEF from

-----------------------------------------------------------------------------
(* Undoing *)

\* The table has every open buffer under its name, and no other
Listed(e) ==
    /\ \A n \in Name : BufferOf(e, n) \in 0..Len(e.buffers)
    /\ \A n \in Name, b \in 1..Len(e.buffers) :
          BufferOf(e, n) = b <=> NameOf(e, b) = n /\ e.buffers[b].open

\* A record that an edit of e can be made from: of an open buffer, within its
\* text, but for a deletion beyond the end, and with a name that is free
Fits(e, u) ==
    /\ u \in Undo
    /\ u.buffer \in 1..Len(e.buffers) /\ e.buffers[u.buffer].open
    /\ u.op = "replace" => u.offset \in 0..Len(TextOf(e, u.buffer))
    /\ u.op = "move" => Block(e, From(u), To(u), u.size) /\ e.buffers[u.dbuffer].open
    /\ u.op = "rename" => u.name # NameOf(e, u.buffer) /\ Contents(e)[u.name] = <<>>

\* Such a record as the client gets it: what it replaces is there
Exact(e, u) ==
    /\ Fits(e, u)
    /\ u.op = "replace" => u.offset + u.size <= Len(TextOf(e, u.buffer))

\* An editor with the same buffers is listed in the same way
LEMMA SameBuffersListed ==
    ASSUME NEW e \in Editor, NEW f, Listed(e), SameBuffers(f, e)
    PROVE  Listed(f)
<1>1. \A n \in Name : BufferOf(f, n) = BufferOf(e, n)
  BY DEF SameBuffers, BufferOf
<1>2. /\ Len(f.buffers) = Len(e.buffers)
      /\ \A c \in 1..Len(e.buffers) :
            NameOf(f, c) = NameOf(e, c) /\ f.buffers[c].open = e.buffers[c].open
  BY DEF SameBuffers
<1>. QED
  BY <1>1, <1>2 DEF Listed

\* Editors with the same buffers and the same texts in those that are open
LEMMA SameContents ==
    ASSUME NEW e \in Editor, NEW f, Listed(e), SameBuffers(f, e),
           \A c \in 1..Len(e.buffers) : TextOf(f, c) = TextOf(e, c)
    PROVE  Contents(f) = Contents(e)
<1>1. ASSUME NEW n \in Name
      PROVE  Contents(f)[n] = Contents(e)[n]
  <2>1. BufferOf(f, n) = BufferOf(e, n) /\ BufferOf(e, n) \in 0..Len(e.buffers)
    BY DEF SameBuffers, BufferOf, Listed
  <2>2. BufferOf(e, n) # 0 => BufferOf(e, n) \in 1..Len(e.buffers)
    <3>1. Len(e.buffers) \in Nat
      BY DEF Editor
    <3>. QED
      BY <2>1, <3>1
  <2>. QED
    BY <2>1, <2>2 DEF Contents
<1>. QED
  BY <1>1 DEF Contents

\* A replacement and the record of it
LEMMA ReplaceIsUndone ==
    ASSUME NEW e \in Editor, NEW b \in 1..Len(e.buffers),
           NEW o \in 0..Len(TextOf(e, b)), NEW size \in Nat, NEW s \in Seq(Char)
    PROVE  LET f == Replaced(e, b, o, size, s)
               v == UndoOfReplace(e, b, o, size, s)
               g == Replaced(f, b, o, v.size, v.str)
           IN  /\ SameBuffers(f, e) /\ SameBuffers(g, e)
               /\ \A c \in 1..Len(e.buffers) : TextOf(g, c) = TextOf(e, c)
               /\ v \in Undo /\ v.op = "replace" /\ v.buffer = b /\ v.offset = o
               /\ o + v.size <= Len(TextOf(f, b))
<1>. DEFINE t == TextOf(e, b)
            d == Clamped(t, o, size)
            old == SubSeq(t, o + 1, o + d)
            f == Replaced(e, b, o, size, s)
            g == Replaced(f, b, o, Len(s), old)
<1>1. /\ t \in Seq(Char) /\ Len(t) \in Nat /\ Len(s) \in Nat /\ o \in Nat
      /\ Len(e.buffers) \in Nat
  BY BufferType
<1>. HIDE DEF t
<1>2. d \in Nat /\ o + d <= Len(t)
  BY <1>1, ClampedProperties DEF t
<1>3. WithText(f, e, b, Cut(t, o, d, s))
  BY ReplacedProperties DEF t
<1>. HIDE DEF f, d
<1>4. old \in Seq(Char) /\ Len(old) = d
  <2>1. o + d \in Nat /\ o <= o + d /\ (o + d) - o = d
    BY <1>1, <1>2
  <2>. QED
    BY <1>1, <1>2, <2>1, PieceProperties
<1>5. IsCut(Cut(t, o, d, s), t, o, d, s)
  BY <1>1, <1>2, CutProperties
<1>6. TextOf(f, b) = Cut(t, o, d, s) /\ f \in Editor /\ b \in 1..Len(f.buffers)
  BY <1>3 DEF WithText
<1>7. Len(TextOf(f, b)) = Len(t) - d + Len(s)
  BY <1>5, <1>6 DEF IsCut
<1>8. o \in 0..Len(TextOf(f, b)) /\ o + Len(s) <= Len(TextOf(f, b))
  BY <1>1, <1>2, <1>7
<1>9. Clamped(TextOf(f, b), o, Len(s)) = Len(s)
  BY <1>1, <1>2, <1>7 DEF Clamped
<1>. HIDE DEF old
<1>10. WithText(g, f, b, Cut(TextOf(f, b), o, Len(s), old))
  <2>1. WithText(g, f, b,
            Cut(TextOf(f, b), o, Clamped(TextOf(f, b), o, Len(s)), old))
    BY <1>1, <1>4, <1>6, <1>8, ReplacedProperties
  <2>. QED
    BY <1>9, <2>1
<1>. HIDE DEF g
<1>11. Cut(TextOf(f, b), o, Len(s), old) = t
  <2>1. PutBack(t, o, d, s)
    BY <1>1, <1>2, CutIsUndone
  <2>. QED
    BY <1>6, <2>1 DEF PutBack, old
<1>12. /\ SameBuffers(f, e) /\ SameBuffers(g, f)
       /\ \A c \in 1..Len(e.buffers) : TextOf(f, c) = IF c = b THEN Cut(t, o, d, s) ELSE TextOf(e, c)
       /\ \A c \in 1..Len(f.buffers) : TextOf(g, c) = IF c = b THEN t ELSE TextOf(f, c)
  BY <1>3, <1>10, <1>11, WithTextSame
<1>13. SameBuffers(g, e)
  BY <1>12, SameBuffersTransitive
<1>14. \A c \in 1..Len(e.buffers) : TextOf(g, c) = TextOf(e, c)
  BY <1>12 DEF SameBuffers, t
<1>15. UndoOfReplace(e, b, o, size, s) =
          [op |-> "replace", buffer |-> b, offset |-> o, size |-> Len(s), str |-> old]
  BY DEF UndoOfReplace, old, d, t
<1>16. [op |-> "replace", buffer |-> b, offset |-> o, size |-> Len(s), str |-> old] \in Undo
  BY <1>1, <1>4 DEF Undo
<1>. QED
  BY <1>8, <1>12, <1>13, <1>14, <1>15, <1>16 DEF f, g

\* A block that was moved and the record of it
LEMMA MoveIsUndone ==
    ASSUME NEW e \in Editor, NEW p, NEW q, NEW k, Block(e, p, q, k)
    PROVE  LET f == Moved(e, p, q, k)
               v == UndoOfMove(p, q, k)
               g == Moved(f, From(v), To(v), v.size)
           IN  /\ SameBuffers(f, e) /\ SameBuffers(g, e)
               /\ \A c \in 1..Len(e.buffers) : TextOf(g, c) = TextOf(e, c)
               /\ v \in Undo /\ v.op = "move" /\ v.buffer = q.buffer /\ v.dbuffer = p.buffer
               /\ v.size = k
               /\ Block(f, From(v), To(v), v.size)
<1>. DEFINE b == p.buffer
            c == q.buffer
            block == BlockOf(e, p, k)
            from == Displaced(p, q, k)
            to == Landed(p, q, k)
            f == Moved(e, p, q, k)
            v == UndoOfMove(p, q, k)
            g == Moved(f, From(v), To(v), v.size)
<1>1. /\ b \in 1..Len(e.buffers) /\ c \in 1..Len(e.buffers) /\ Len(e.buffers) \in Nat
      /\ b \in Nat \ {0} /\ c \in Nat \ {0}
      /\ p.offset \in Nat /\ q.offset \in Nat /\ k \in Nat
      /\ p.offset + k <= Len(TextOf(e, b))
      /\ q.offset <= Len(TextOf(e, c))
      /\ b = c => ~(p.offset < q.offset /\ q.offset < p.offset + k)
      /\ TextOf(e, b) \in Seq(Char) /\ Len(TextOf(e, b)) \in Nat
      /\ TextOf(e, c) \in Seq(Char) /\ Len(TextOf(e, c)) \in Nat
  <2>1. b \in 1..Len(e.buffers) /\ c \in 1..Len(e.buffers)
    BY DEF Block
  <2>. QED
    BY <2>1, BufferType DEF Block, Place, IntoItself
<1>2. block \in Seq(Char) /\ Len(block) = k
  <2>1. p.offset + k \in Nat /\ p.offset <= p.offset + k /\ (p.offset + k) - p.offset = k
    BY <1>1
  <2>. QED
    BY <1>1, <2>1, PieceProperties DEF BlockOf
<1>3. /\ from = [buffer |-> b, offset |-> from.offset]
      /\ to = [buffer |-> c, offset |-> to.offset]
      /\ b = c => /\ from.offset = Shift(p.offset, q.offset, 0, k)
                  /\ to.offset = Shift(q.offset, from.offset, k, 0)
      /\ b # c => from.offset = p.offset /\ to.offset = q.offset
  <2>1. p = [buffer |-> b, offset |-> p.offset] /\ q = [buffer |-> c, offset |-> q.offset]
    BY DEF Block, Place
  <2>2. CASE b = c
    <3>1. from = [p EXCEPT !.offset = Shift(p.offset, q.offset, 0, k)]
      BY <2>2 DEF Displaced
    <3>2. /\ from.buffer = b /\ from.offset = Shift(p.offset, q.offset, 0, k)
          /\ from = [buffer |-> b, offset |-> from.offset]
      BY <2>1, <3>1
    <3>3. to = [q EXCEPT !.offset = Shift(q.offset, from.offset, k, 0)]
      BY <2>2, <3>2 DEF Landed
    <3>4. /\ to.offset = Shift(q.offset, from.offset, k, 0)
          /\ to = [buffer |-> c, offset |-> to.offset]
      BY <2>1, <3>3
    <3>. QED
      BY <2>2, <3>2, <3>4
  <2>3. CASE b # c
    <3>1. from = p
      BY <2>3 DEF Displaced
    <3>2. to = q
      BY <2>3, <3>1 DEF Landed
    <3>. QED
      BY <2>1, <2>3, <3>1, <3>2
  <2>. QED
    BY <2>2, <2>3
<1>4. /\ From(v) = to /\ To(v) = from /\ v.size = k
      /\ v.op = "move" /\ v.buffer = c /\ v.dbuffer = b
      /\ v = [op |-> "move", buffer |-> c, offset |-> to.offset, size |-> k,
              dbuffer |-> b, doffset |-> from.offset]
  BY <1>3 DEF UndoOfMove, From, To
<1>. HIDE DEF block, from, to, v
<1>5. /\ SameBuffers(f, e)
      /\ \A x \in 1..Len(e.buffers) :
            TextOf(f, x) = IF x = b THEN Cut(WithBlock(e, p, q, k, x), from.offset, k, <<>>)
                           ELSE WithBlock(e, p, q, k, x)
  BY MovedProperties DEF from
<1>. HIDE DEF f
<1>6. /\ f \in Editor /\ Len(f.buffers) = Len(e.buffers)
      /\ TextOf(f, b) \in Seq(Char) /\ Len(TextOf(f, b)) \in Nat
      /\ TextOf(f, c) \in Seq(Char) /\ Len(TextOf(f, c)) \in Nat
  <2>1. f \in Editor /\ Len(f.buffers) = Len(e.buffers)
    BY <1>5 DEF SameBuffers
  <2>. QED
    BY <1>1, <2>1, BufferType
<1>. DEFINE none == <<>>
            t == TextOf(e, c)
            roomy == Cut(t, q.offset, 0, block)
<1>7. none \in Seq(Char) /\ Len(none) = 0 /\ \A w \in Seq(Char), o \in Nat : SubSeq(w, o + 1, o) = none
  BY NoText
<1>. HIDE DEF none
<1>8. /\ IsCut(roomy, t, q.offset, 0, block)
      /\ SubSeq(roomy, q.offset + 1, q.offset + k) = block
      /\ Cut(roomy, q.offset, k, none) = t
  <2>1. q.offset + 0 <= Len(t) /\ 0 \in Nat
    BY <1>1
  <2>2. IsCut(roomy, t, q.offset, 0, block)
    BY <1>1, <1>2, <2>1, CutProperties
  <2>3. SubSeq(roomy, q.offset + 1, q.offset + Len(block)) = block
    <3>1. \A z \in Nat : q.offset + z <= Len(t) =>
              SubSeq(Cut(t, q.offset, z, block), q.offset + 1, q.offset + Len(block)) = block
      BY <1>1, <1>2, InsertedIsThere
    <3>. QED
      BY <2>1, <3>1
  <2>4. Cut(roomy, q.offset, Len(block), SubSeq(t, q.offset + 1, q.offset + 0)) = t
    <3>1. PutBack(t, q.offset, 0, block)
      BY <1>1, <1>2, <2>1, CutIsUndone
    <3>. QED
      BY <3>1 DEF PutBack
  <2>5. SubSeq(t, q.offset + 1, q.offset + 0) = none
    BY <1>1, <1>7
  <2>. QED
    BY <1>2, <2>2, <2>3, <2>4, <2>5
<1>9. roomy \in Seq(Char) /\ Len(roomy) = Len(t) + k
  BY <1>1, <1>2, <1>8 DEF IsCut
<1>. DEFINE back == Displaced(to, from, k)
            Whole == /\ Block(f, to, from, k)
                     /\ \A x \in 1..Len(e.buffers) :
                           TextOf(e, x) = IF x = c THEN Cut(WithBlock(f, to, from, k, x), back.offset, k, none)
                                          ELSE WithBlock(f, to, from, k, x)
<1>. HIDE DEF Whole
<1>10. ASSUME b = c PROVE Whole
  <2>. DEFINE fr == from.offset
              too == to.offset
  <2>1. /\ fr \in Nat /\ too \in Nat /\ fr + k <= Len(t) + k /\ too + k <= Len(t)
        /\ SubSeq(roomy, fr + 1, fr + k) = block
        /\ Cut(roomy, fr, k, none) = Cut(Cut(t, p.offset, k, none), too, 0, block)
        /\ Shift(too, fr, 0, k) = q.offset
        /\ ~(too < fr /\ fr < too + k)
    <3>1. MovesRight(t, p.offset, q.offset, k)
      BY <1>1, <1>10, MovedInOneText
    <3>. QED
      BY <1>3, <1>10, <3>1 DEF MovesRight, none, block, BlockOf
  <2>2. TextOf(f, c) = Cut(roomy, fr, k, none)
    BY <1>1, <1>5, <1>10 DEF WithBlock, none, block
  <2>3. Len(TextOf(f, c)) = Len(t)
    <3>1. IsCut(Cut(roomy, fr, k, none), roomy, fr, k, none)
      BY <1>1, <1>7, <1>9, <2>1, CutProperties
    <3>. QED
      BY <1>1, <1>7, <1>9, <2>2, <3>1 DEF IsCut
  <2>4. Block(f, to, from, k)
    BY <1>1, <1>3, <1>6, <1>10, <2>1, <2>3, SMTT(30) DEF Block, Place, IntoItself
  <2>5. BlockOf(f, to, k) = block
    <3>. DEFINE taken == Cut(t, p.offset, k, none)
    <3>1. IsCut(taken, t, p.offset, k, none)
      BY <1>1, <1>7, <1>10, CutProperties
    <3>2. taken \in Seq(Char) /\ Len(taken) = Len(t) - k
      BY <1>1, <1>7, <3>1 DEF IsCut
    <3>. HIDE DEF taken
    <3>3. too + 0 <= Len(taken) /\ 0 \in Nat
      BY <1>1, <2>1, <3>2
    <3>4. SubSeq(Cut(taken, too, 0, block), too + 1, too + Len(block)) = block
      BY <1>2, <2>1, <3>2, <3>3, InsertedIsThere
    <3>. QED
      BY <1>2, <1>3, <2>1, <2>2, <3>4 DEF BlockOf, taken
  <2>6. WithBlock(f, to, from, k, c) = roomy
    <3>. HIDE DEF fr, roomy
    <3>0. fr + k <= Len(roomy)
      BY <1>1, <1>9, <2>1
    <3>1. Cut(Cut(roomy, fr, k, none), fr, Len(none), SubSeq(roomy, fr + 1, fr + k)) = roomy
      <4>1. PutBack(roomy, fr, k, none)
        BY <1>1, <1>7, <1>9, <2>1, <3>0, CutIsUndone DEF fr
      <4>. QED
        BY <4>1 DEF PutBack
    <3>2. WithBlock(f, to, from, k, c) = Cut(TextOf(f, c), fr, 0, block)
      BY <1>3, <1>10, <2>5 DEF WithBlock, fr
    <3>. QED
      BY <1>7, <2>1, <2>2, <3>1, <3>2
  <2>7. back.offset = q.offset
    BY <1>3, <1>10, <2>1 DEF Displaced
  <2>8. \A x \in 1..Len(e.buffers) : x # c => WithBlock(f, to, from, k, x) = TextOf(e, x)
    BY <1>3, <1>5, <1>10 DEF WithBlock
  <2>9. Cut(WithBlock(f, to, from, k, c), back.offset, k, none) = TextOf(e, c)
    BY <1>8, <2>6, <2>7
  <2>. HIDE DEF back
  <2>. QED
    BY <2>4, <2>8, <2>9 DEF Whole
<1>11. ASSUME b # c PROVE Whole
  <2>1. /\ from.offset = p.offset /\ to.offset = q.offset /\ from.buffer = b /\ to.buffer = c
        /\ from \in Place /\ to \in Place
    BY <1>1, <1>3, <1>11 DEF Place
  <2>2. TextOf(f, c) = roomy /\ TextOf(f, b) = Cut(TextOf(e, b), p.offset, k, none)
    BY <1>1, <1>5, <1>11, <2>1 DEF WithBlock, none, block
  <2>3. IsCut(TextOf(f, b), TextOf(e, b), p.offset, k, none)
    <3>1. IsCut(Cut(TextOf(e, b), p.offset, k, none), TextOf(e, b), p.offset, k, none)
      BY <1>1, <1>7, CutProperties
    <3>. QED
      BY <2>2, <3>1
  <2>4. Len(TextOf(f, b)) = Len(TextOf(e, b)) - k
    BY <1>1, <1>7, <2>3 DEF IsCut
  <2>5. Block(f, to, from, k)
    BY <1>1, <1>6, <1>9, <1>11, <2>1, <2>2, <2>4, SMTT(30) DEF Block, IntoItself
  <2>6. BlockOf(f, to, k) = block
    BY <1>8, <2>1, <2>2 DEF BlockOf
  <2>7. WithBlock(f, to, from, k, b) = TextOf(e, b)
    <3>1. Cut(Cut(TextOf(e, b), p.offset, k, none), p.offset, Len(none), block) = TextOf(e, b)
      <4>1. PutBack(TextOf(e, b), p.offset, k, none)
        BY <1>1, <1>7, CutIsUndone
      <4>. QED
        BY <4>1 DEF PutBack, block, BlockOf
    <3>. QED
      BY <1>7, <2>1, <2>2, <2>6, <3>1 DEF WithBlock
  <2>8. WithBlock(f, to, from, k, c) = roomy
    BY <1>11, <2>1, <2>2 DEF WithBlock
  <2>9. back.offset = q.offset
    BY <1>11, <2>1 DEF Displaced
  <2>10. \A x \in 1..Len(e.buffers) : x # b /\ x # c => WithBlock(f, to, from, k, x) = TextOf(e, x)
    BY <1>5, <2>1 DEF WithBlock
  <2>11. Cut(WithBlock(f, to, from, k, c), back.offset, k, none) = TextOf(e, c)
    BY <1>8, <2>8, <2>9
  <2>. HIDE DEF back
  <2>. QED
    BY <1>11, <2>5, <2>7, <2>10, <2>11 DEF Whole
<1>12. Whole
  BY <1>10, <1>11
<1>13. g = Moved(f, to, from, k)
  BY <1>4
<1>14. /\ SameBuffers(Moved(f, to, from, k), f)
       /\ \A x \in 1..Len(f.buffers) :
             TextOf(Moved(f, to, from, k), x) =
                 IF x = to.buffer THEN Cut(WithBlock(f, to, from, k, x), back.offset, k, <<>>)
                 ELSE WithBlock(f, to, from, k, x)
  BY <1>6, <1>12, MovedProperties DEF Whole
<1>15. SameBuffers(g, e) /\ \A x \in 1..Len(e.buffers) : TextOf(g, x) = TextOf(e, x)
  <2>1. SameBuffers(g, e)
    BY <1>5, <1>13, <1>14, SameBuffersTransitive
  <2>2. to.buffer = c
    BY <1>3
  <2>. QED
    BY <1>6, <1>12, <1>13, <1>14, <2>1, <2>2 DEF Whole, none
<1>16. v \in Undo
  <2>1. from.offset \in Nat /\ to.offset \in Nat
    BY <1>12 DEF Whole, Block, Place
  <2>. QED
    BY <1>1, <1>4, <2>1 DEF Undo
<1>. QED
  BY <1>4, <1>5, <1>12, <1>15, <1>16 DEF Whole, f, v

\* One entry of the table
LEMMA TableProperties ==
    ASSUME NEW e \in Editor, NEW x \in Name, NEW v \in Nat
    PROVE  LET f == [e EXCEPT !.table[x] = v]
           IN  /\ f \in Editor /\ f.buffers = e.buffers /\ f.markers = e.markers
               /\ \A y \in Name : BufferOf(f, y) = IF y = x THEN v ELSE BufferOf(e, y)
<1>. DEFINE table == [e.table EXCEPT ![x] = v]
            f == [e EXCEPT !.table = table]
<1>1. table \in [Name -> Nat] /\ \A y \in Name : table[y] = IF y = x THEN v ELSE e.table[y]
  BY DEF Editor
<1>. HIDE DEF table
<1>2. f \in Editor /\ f.buffers = e.buffers /\ f.markers = e.markers /\ f.table = table
  BY <1>1 DEF Editor
<1>. HIDE DEF f
<1>3. \A y \in Name : BufferOf(f, y) = IF y = x THEN v ELSE BufferOf(e, y)
  BY <1>1, <1>2 DEF BufferOf
<1>. QED
  BY <1>2, <1>3 DEF f, table

\* One buffer
LEMMA BufferProperties ==
    ASSUME NEW e \in Editor, NEW b \in 1..Len(e.buffers), NEW r \in BufferRecord
    PROVE  LET f == [e EXCEPT !.buffers[b] = r]
           IN  /\ f \in Editor /\ f.table = e.table /\ f.markers = e.markers
               /\ Len(f.buffers) = Len(e.buffers)
               /\ \A c \in 1..Len(e.buffers) : f.buffers[c] = IF c = b THEN r ELSE e.buffers[c]
<1>. DEFINE buffers == [e.buffers EXCEPT ![b] = r]
            f == [e EXCEPT !.buffers = buffers]
<1>1. /\ buffers \in Seq(BufferRecord) /\ Len(buffers) = Len(e.buffers)
      /\ \A c \in 1..Len(e.buffers) : buffers[c] = IF c = b THEN r ELSE e.buffers[c]
  BY BufferType, ExceptSeq
<1>. HIDE DEF buffers
<1>2. f \in Editor /\ f.buffers = buffers /\ f.markers = e.markers /\ f.table = e.table
  BY <1>1 DEF Editor
<1>. HIDE DEF f
<1>3. /\ Len(f.buffers) = Len(e.buffers)
      /\ \A c \in 1..Len(e.buffers) : f.buffers[c] = IF c = b THEN r ELSE e.buffers[c]
  BY <1>1, <1>2
<1>. QED
  BY <1>2, <1>3 DEF f, buffers

\* A new buffer comes last, and has the name
IsCreated(f, e, n, mod) ==
    /\ f \in Editor /\ Len(f.buffers) = Len(e.buffers) + 1 /\ f.markers = e.markers
    /\ \A c \in 1..(Len(e.buffers) + 1) :
          f.buffers[c] = IF c = Len(e.buffers) + 1
                         THEN [fileName |-> n, text |-> <<>>, modified |-> mod, open |-> TRUE]
                         ELSE e.buffers[c]
    /\ \A y \in Name : BufferOf(f, y) = IF y = n THEN Len(e.buffers) + 1 ELSE BufferOf(e, y)

\* createNewEditorBuffer()
LEMMA CreatedProperties ==
    ASSUME NEW e \in Editor, NEW n \in Name, NEW mod \in BOOLEAN
    PROVE  IsCreated(Created(e, n, mod), e, n, mod)
<1>. DEFINE r == [fileName |-> n, text |-> <<>>, modified |-> mod, open |-> TRUE]
            buffers == Append(e.buffers, r)
            N == Len(e.buffers)
            g == [e EXCEPT !.buffers = buffers]
            f == [g EXCEPT !.table[n] = N + 1]
<1>1. e.buffers \in Seq(BufferRecord) /\ N \in Nat /\ N + 1 \in Nat
  BY DEF Editor
<1>2. r \in BufferRecord
  <2>1. <<>> \in Seq(Char)
    BY NoText
  <2>. QED
    BY <2>1 DEF BufferRecord
<1>. HIDE DEF r
<1>3. /\ buffers \in Seq(BufferRecord) /\ Len(buffers) = N + 1
      /\ \A c \in 1..(N + 1) : buffers[c] = IF c = N + 1 THEN r ELSE e.buffers[c]
  BY <1>1, <1>2, AppendProperties
<1>. HIDE DEF buffers
<1>4. g \in Editor /\ g.buffers = buffers /\ g.markers = e.markers /\ g.table = e.table
  BY <1>3 DEF Editor
<1>5. Created(e, n, mod) = f
  BY DEF Created, r, buffers
<1>. HIDE DEF g
<1>6. /\ f \in Editor /\ f.buffers = g.buffers /\ f.markers = g.markers
      /\ \A y \in Name : BufferOf(f, y) = IF y = n THEN N + 1 ELSE BufferOf(g, y)
  <2>1. \A z \in Nat : LET h == [g EXCEPT !.table[n] = z]
                       IN  /\ h \in Editor /\ h.buffers = g.buffers /\ h.markers = g.markers
                           /\ \A y \in Name : BufferOf(h, y) = IF y = n THEN z ELSE BufferOf(g, y)
    BY <1>4, TableProperties
  <2>. QED
    BY <1>1, <2>1
<1>7. \A y \in Name : BufferOf(g, y) = BufferOf(e, y)
  BY <1>4 DEF BufferOf
<1>. HIDE DEF f
<1>8. /\ f.markers = e.markers /\ Len(f.buffers) = N + 1
      /\ \A y \in Name : BufferOf(f, y) = IF y = n THEN N + 1 ELSE BufferOf(e, y)
      /\ \A c \in 1..(N + 1) : f.buffers[c] = IF c = N + 1 THEN r ELSE e.buffers[c]
  BY <1>3, <1>4, <1>6, <1>7
<1>. QED
  BY <1>5, <1>6, <1>8 DEF IsCreated, r

\* The buffer that has the name, if there is one, is freed
LEMMA FreedProperties ==
    ASSUME NEW e \in Editor, NEW n \in Name, BufferOf(e, n) \in 0..Len(e.buffers)
    PROVE  LET f == Freed(e, n)
           IN  /\ f \in Editor /\ Len(f.buffers) = Len(e.buffers) /\ f.markers = e.markers
               /\ \A c \in 1..Len(e.buffers) :
                     /\ f.buffers[c] \in BufferRecord
                     /\ NameOf(f, c) = NameOf(e, c) /\ TextOf(f, c) = TextOf(e, c)
                     /\ f.buffers[c].open <=> e.buffers[c].open /\ c # BufferOf(e, n)
               /\ \A y \in Name : BufferOf(f, y) = IF y = n THEN 0 ELSE BufferOf(e, y)
<1>. DEFINE other == BufferOf(e, n)
            f == Freed(e, n)
<1>1. Len(e.buffers) \in Nat /\ \A c \in 1..Len(e.buffers) : e.buffers[c] \in BufferRecord
  BY BufferType
<1>2. CASE other = 0
  <2>1. f = e
    BY <1>2 DEF Freed
  <2>2. \A c \in 1..Len(e.buffers) : c # other
    BY <1>2
  <2>. HIDE DEF f
  <2>3. \A c \in 1..Len(e.buffers) :
            f.buffers[c].open <=> e.buffers[c].open /\ c # other
    BY <2>1, <2>2
  <2>4. \A y \in Name : BufferOf(f, y) = IF y = n THEN 0 ELSE BufferOf(e, y)
    BY <1>2, <2>1
  <2>. QED
    BY <1>1, <2>1, <2>3, <2>4 DEF f
<1>3. CASE other # 0
  <2>. DEFINE r == [e.buffers[other] EXCEPT !.open = FALSE]
              g == [e EXCEPT !.buffers[other] = r]
  <2>1. other \in 1..Len(e.buffers)
    BY <1>1, <1>3
  <2>2. /\ r \in BufferRecord /\ ~r.open
        /\ r.fileName = e.buffers[other].fileName /\ r.text = e.buffers[other].text
    BY <1>1, <2>1 DEF BufferRecord
  <2>3. f = [g EXCEPT !.table[n] = 0]
    BY <1>3 DEF Freed
  <2>. HIDE DEF r, f
  <2>4. /\ g \in Editor /\ g.table = e.table /\ g.markers = e.markers
        /\ Len(g.buffers) = Len(e.buffers)
        /\ \A c \in 1..Len(e.buffers) : g.buffers[c] = IF c = other THEN r ELSE e.buffers[c]
    BY <2>1, <2>2, BufferProperties
  <2>. HIDE DEF g
  <2>5. /\ f \in Editor /\ f.buffers = g.buffers /\ f.markers = g.markers
        /\ \A y \in Name : BufferOf(f, y) = IF y = n THEN 0 ELSE BufferOf(g, y)
    <3>1. \A z \in Nat : LET h == [g EXCEPT !.table[n] = z]
                         IN  /\ h \in Editor /\ h.buffers = g.buffers /\ h.markers = g.markers
                             /\ \A y \in Name : BufferOf(h, y) = IF y = n THEN z ELSE BufferOf(g, y)
      BY <2>4, TableProperties
    <3>. QED
      BY <2>3, <3>1
  <2>6. \A y \in Name : BufferOf(g, y) = BufferOf(e, y)
    BY <2>4 DEF BufferOf
  <2>7. ASSUME NEW c \in 1..Len(e.buffers)
        PROVE  /\ f.buffers[c] \in BufferRecord
               /\ NameOf(f, c) = NameOf(e, c) /\ TextOf(f, c) = TextOf(e, c)
               /\ f.buffers[c].open <=> e.buffers[c].open /\ c # other
    <3>1. CASE c = other
      BY <2>2, <2>4, <2>5, <3>1 DEF NameOf, TextOf
    <3>2. CASE c # other
      BY <1>1, <2>4, <2>5, <3>2 DEF NameOf, TextOf
    <3>. QED
      BY <3>1, <3>2
  <2>. QED
    BY <2>4, <2>5, <2>6, <2>7 DEF f
<1>. QED
  BY <1>2, <1>3

\* What renameEditorBuffer() makes of e: f, with one more buffer, which has the
\* old name and no text
IsRenamed(f, e, b, n) ==
    /\ f \in Editor /\ Len(f.buffers) = Len(e.buffers) + 1 /\ f.markers = e.markers
    /\ \A c \in 1..Len(e.buffers) :
          /\ NameOf(f, c) = IF c = b THEN n ELSE NameOf(e, c)
          /\ TextOf(f, c) = TextOf(e, c)
          /\ f.buffers[c].open <=> e.buffers[c].open /\ c # BufferOf(e, n)
    /\ \A c \in {Len(e.buffers) + 1} :
          NameOf(f, c) = NameOf(e, b) /\ TextOf(f, c) = <<>> /\ f.buffers[c].open
    /\ \A y \in Name : BufferOf(f, y) = IF y = NameOf(e, b) THEN Len(e.buffers) + 1
                                        ELSE IF y = n THEN b ELSE BufferOf(e, y)

LEMMA RenamedProperties ==
    ASSUME NEW e \in Editor, NEW b \in 1..Len(e.buffers), NEW n \in Name,
           Listed(e), e.buffers[b].open, n # NameOf(e, b)
    PROVE  IsRenamed(Renamed(e, b, n), e, b, n)
<1>. DEFINE old == NameOf(e, b)
            N == Len(e.buffers)
            e1 == [e EXCEPT !.table[old] = 0]
            e2 == Freed(e1, n)
            r == [e2.buffers[b] EXCEPT !.fileName = n, !.modified = TRUE]
            e3 == [e2 EXCEPT !.buffers[b] = r]
            e4 == [e3 EXCEPT !.table[n] = b]
            f == Renamed(e, b, n)
<1>1. N \in Nat /\ b \in Nat /\ old \in Name
  BY BufferType
<1>2. f = Created(e4, old, TRUE)
  BY DEF Renamed
<1>. HIDE DEF old, f
<1>3. /\ e1 \in Editor /\ e1.buffers = e.buffers /\ e1.markers = e.markers
      /\ \A y \in Name : BufferOf(e1, y) = IF y = old THEN 0 ELSE BufferOf(e, y)
  <2>1. \A z \in Nat : LET h == [e EXCEPT !.table[old] = z]
                       IN  /\ h \in Editor /\ h.buffers = e.buffers /\ h.markers = e.markers
                           /\ \A y \in Name : BufferOf(h, y) = IF y = old THEN z ELSE BufferOf(e, y)
    BY <1>1, TableProperties
  <2>. QED
    BY <2>1
<1>. HIDE DEF e1
<1>4. BufferOf(e1, n) = BufferOf(e, n) /\ BufferOf(e, n) \in 0..N /\ BufferOf(e, n) # b
  <2>1. BufferOf(e, n) \in 0..N /\ BufferOf(e, n) # b
    BY DEF Listed
  <2>. QED
    BY <1>3, <2>1 DEF old
<1>5. /\ e2 \in Editor /\ Len(e2.buffers) = N /\ e2.markers = e1.markers
      /\ \A c \in 1..N :
            /\ e2.buffers[c] \in BufferRecord
            /\ NameOf(e2, c) = NameOf(e1, c) /\ TextOf(e2, c) = TextOf(e1, c)
            /\ e2.buffers[c].open <=> e1.buffers[c].open /\ c # BufferOf(e1, n)
      /\ \A y \in Name : BufferOf(e2, y) = IF y = n THEN 0 ELSE BufferOf(e1, y)
  BY <1>3, <1>4, FreedProperties
<1>. HIDE DEF e2
<1>6. r \in BufferRecord /\ r.fileName = n /\ r.text = TextOf(e2, b) /\ (r.open <=> e2.buffers[b].open)
  <2>1. e2.buffers[b] \in BufferRecord
    BY <1>5
  <2>. QED
    BY <2>1 DEF BufferRecord, TextOf
<1>. HIDE DEF r
<1>7. /\ e3 \in Editor /\ e3.table = e2.table /\ e3.markers = e2.markers
      /\ Len(e3.buffers) = N
      /\ \A c \in 1..N : e3.buffers[c] = IF c = b THEN r ELSE e2.buffers[c]
  BY <1>5, <1>6, BufferProperties
<1>. HIDE DEF e3
<1>8. /\ e4 \in Editor /\ e4.buffers = e3.buffers /\ e4.markers = e3.markers
      /\ \A y \in Name : BufferOf(e4, y) = IF y = n THEN b ELSE BufferOf(e3, y)
  <2>1. \A z \in Nat : LET h == [e3 EXCEPT !.table[n] = z]
                       IN  /\ h \in Editor /\ h.buffers = e3.buffers /\ h.markers = e3.markers
                           /\ \A y \in Name : BufferOf(h, y) = IF y = n THEN z ELSE BufferOf(e3, y)
    BY <1>7, TableProperties
  <2>2. b \in Nat
    BY <1>1
  <2>. QED
    BY <2>1, <2>2
<1>. HIDE DEF e4
<1>. DEFINE last == [fileName |-> old, text |-> <<>>, modified |-> TRUE, open |-> TRUE]
<1>9. /\ f \in Editor /\ Len(f.buffers) = N + 1 /\ f.markers = e4.markers
      /\ \A c \in 1..(N + 1) : f.buffers[c] = IF c = N + 1 THEN last ELSE e4.buffers[c]
      /\ \A y \in Name : BufferOf(f, y) = IF y = old THEN N + 1 ELSE BufferOf(e4, y)
  <2>1. Len(e4.buffers) = N
    BY <1>7, <1>8
  <2>. QED
    <3>1. IsCreated(f, e4, old, TRUE)
      BY <1>1, <1>2, <1>8, CreatedProperties
    <3>. QED
      BY <2>1, <3>1 DEF IsCreated
<1>10. last.fileName = old /\ last.text = <<>> /\ last.open
  OBVIOUS
<1>. HIDE DEF last
<1>11. \A y \in Name : BufferOf(f, y) = IF y = old THEN N + 1 ELSE IF y = n THEN b ELSE BufferOf(e, y)
  <2>1. \A y \in Name : BufferOf(e3, y) = BufferOf(e2, y)
    BY <1>7 DEF BufferOf
  <2>. QED
    BY <1>3, <1>5, <1>8, <1>9, <2>1
<1>12. \A c \in {N + 1} : NameOf(f, c) = old /\ TextOf(f, c) = <<>> /\ f.buffers[c].open
  <2>1. N + 1 \in 1..(N + 1)
    BY <1>1
  <2>2. f.buffers[N + 1] = last
    BY <1>9, <2>1
  <2>. QED
    BY <1>10, <2>2 DEF NameOf, TextOf
<1>13. ASSUME NEW c \in 1..N
       PROVE  /\ NameOf(f, c) = IF c = b THEN n ELSE NameOf(e, c)
              /\ TextOf(f, c) = TextOf(e, c)
              /\ f.buffers[c].open <=> e.buffers[c].open /\ c # BufferOf(e, n)
  <2>1. c \in 1..(N + 1) /\ c # N + 1
    BY <1>1
  <2>2. f.buffers[c] = IF c = b THEN r ELSE e2.buffers[c]
    BY <1>7, <1>8, <1>9, <2>1
  <2>3. /\ NameOf(e2, c) = NameOf(e, c) /\ TextOf(e2, c) = TextOf(e, c)
        /\ e2.buffers[c].open <=> e.buffers[c].open /\ c # BufferOf(e, n)
    BY <1>3, <1>4, <1>5 DEF NameOf, TextOf
  <2>4. CASE c = b
    <3>1. f.buffers[c] = r
      BY <2>2, <2>4
    <3>. QED
      BY <1>6, <2>3, <2>4, <3>1 DEF NameOf, TextOf
  <2>5. CASE c # b
    <3>1. f.buffers[c] = e2.buffers[c]
      BY <2>2, <2>5
    <3>. QED
      BY <2>3, <2>5, <3>1 DEF NameOf, TextOf
  <2>. QED
    BY <2>4, <2>5
<1>14. f.markers = e.markers
  BY <1>3, <1>5, <1>7, <1>8, <1>9
<1>. QED
  BY <1>9, <1>11, <1>12, <1>13, <1>14 DEF IsRenamed, f, old

\* A renamed buffer is in the table under its new name, and so is the empty one
\* that has its old name
LEMMA RenamedListed ==
    ASSUME NEW e \in Editor, NEW f, NEW b \in 1..Len(e.buffers), NEW n \in Name,
           Listed(e), e.buffers[b].open, n # NameOf(e, b), IsRenamed(f, e, b, n)
    PROVE  Listed(f)
<1>. DEFINE N == Len(e.buffers)
            old == NameOf(e, b)
<1>1. N \in Nat /\ b \in 1..N /\ Len(f.buffers) = N + 1
  BY BufferType DEF IsRenamed
<1>2. \A y \in Name : BufferOf(e, y) \in 0..N
  BY DEF Listed
<1>3. \A y \in Name : BufferOf(f, y) = IF y = old THEN N + 1 ELSE IF y = n THEN b ELSE BufferOf(e, y)
  BY DEF IsRenamed
<1>4. \A y \in Name : BufferOf(f, y) \in 0..Len(f.buffers)
  BY <1>1, <1>2, <1>3
<1>5. \A y \in Name : BufferOf(e, y) = b <=> y = old
  BY <1>1 DEF Listed
<1>6. ASSUME NEW y \in Name, NEW c \in 1..(N + 1)
      PROVE  BufferOf(f, y) = c <=> NameOf(f, c) = y /\ f.buffers[c].open
  <2>1. CASE c = N + 1
    <3>1. NameOf(f, c) = old /\ f.buffers[c].open
      BY <2>1 DEF IsRenamed
    <3>2. BufferOf(f, y) = N + 1 <=> y = old
      BY <1>1, <1>2, <1>3
    <3>. QED
      BY <2>1, <3>1, <3>2
  <2>2. CASE c \in 1..N /\ c = b
    <3>1. BufferOf(e, n) # b
      BY <1>5
    <3>2. NameOf(f, c) = n /\ f.buffers[c].open
      BY <2>2, <3>1 DEF IsRenamed
    <3>3. BufferOf(f, y) = b <=> y = n
      BY <1>1, <1>3, <1>5
    <3>. QED
      BY <2>2, <3>2, <3>3
  <2>3. CASE c \in 1..N /\ c # b
    <3>1. NameOf(f, c) = NameOf(e, c) /\ (f.buffers[c].open <=> e.buffers[c].open /\ c # BufferOf(e, n))
      BY <2>3 DEF IsRenamed
    <3>2. \A z \in Name : BufferOf(e, z) = c <=> NameOf(e, c) = z /\ e.buffers[c].open
      BY <2>3 DEF Listed
    <3>3. c # N + 1
      BY <1>1, <2>3
    <3>4. CASE y = old
      <4>1. BufferOf(f, y) # c
        BY <1>3, <3>3, <3>4
      <4>2. ~(NameOf(e, c) = y /\ e.buffers[c].open)
        BY <1>5, <2>3, <3>2, <3>4
      <4>. QED
        BY <3>1, <4>1, <4>2
    <3>5. CASE y # old /\ y = n
      <4>1. BufferOf(f, y) # c
        BY <1>3, <2>3, <3>5
      <4>2. NameOf(e, c) = y /\ e.buffers[c].open => c = BufferOf(e, n)
        BY <3>2, <3>5
      <4>. QED
        BY <3>1, <4>1, <4>2
    <3>6. CASE y # old /\ y # n
      <4>1. BufferOf(f, y) = BufferOf(e, y)
        BY <1>3, <3>6
      <4>2. NameOf(e, c) = y /\ e.buffers[c].open => c # BufferOf(e, n)
        BY <3>2, <3>6
      <4>. QED
        BY <3>1, <3>2, <4>1, <4>2
    <3>. QED
      BY <3>4, <3>5, <3>6
  <2>4. c = N + 1 \/ c \in 1..N
    BY <1>1
  <2>. QED
    BY <2>1, <2>2, <2>3, <2>4
<1>. QED
  BY <1>1, <1>4, <1>6 DEF Listed

\* Its text is that of the new name, which the old one has lost
LEMMA RenamedContents ==
    ASSUME NEW e \in Editor, NEW f, NEW b \in 1..Len(e.buffers), NEW n \in Name,
           Listed(e), e.buffers[b].open, n # NameOf(e, b), IsRenamed(f, e, b, n)
    PROVE  Contents(f) = [x \in Name |-> IF x = NameOf(e, b) THEN <<>>
                                         ELSE IF x = n THEN Contents(e)[NameOf(e, b)]
                                         ELSE Contents(e)[x]]
<1>. DEFINE N == Len(e.buffers)
            old == NameOf(e, b)
<1>1. N \in Nat /\ b \in 1..N /\ old \in Name
  BY BufferType
<1>2. ASSUME NEW x \in Name
      PROVE  Contents(f)[x] = IF x = old THEN <<>>
                              ELSE IF x = n THEN Contents(e)[old] ELSE Contents(e)[x]
  <2>1. /\ Contents(e)[x] = IF BufferOf(e, x) = 0 THEN <<>> ELSE TextOf(e, BufferOf(e, x))
        /\ Contents(f)[x] = IF BufferOf(f, x) = 0 THEN <<>> ELSE TextOf(f, BufferOf(f, x))
    BY DEF Contents
  <2>2. BufferOf(f, x) = IF x = old THEN N + 1 ELSE IF x = n THEN b ELSE BufferOf(e, x)
    BY DEF IsRenamed
  <2>3. \A c \in 1..N : TextOf(f, c) = TextOf(e, c)
    BY DEF IsRenamed
  <2>4. CASE x = old
    <3>1. \A c \in {N + 1} : TextOf(f, c) = <<>>
      BY DEF IsRenamed
    <3>2. BufferOf(f, x) = N + 1 /\ N + 1 # 0
      BY <1>1, <2>2, <2>4
    <3>. QED
      BY <2>1, <2>4, <3>1, <3>2
  <2>5. CASE x # old /\ x = n
    <3>1. Contents(e)[old] = TextOf(e, b)
      <4>1. BufferOf(e, old) = b /\ b # 0
        BY <1>1 DEF Listed
      <4>. QED
        BY <1>1, <4>1 DEF Contents
    <3>2. BufferOf(f, x) = b /\ b # 0
      BY <1>1, <2>2, <2>5
    <3>. QED
      BY <1>1, <2>1, <2>3, <2>5, <3>1, <3>2
  <2>6. CASE x # old /\ x # n
    <3>1. BufferOf(f, x) = BufferOf(e, x)
      BY <2>2, <2>6
    <3>2. BufferOf(e, x) # 0 => BufferOf(e, x) \in 1..N
      BY <1>1 DEF Listed
    <3>. QED
      BY <2>1, <2>3, <2>6, <3>1, <3>2
  <2>. QED
    BY <2>4, <2>5, <2>6
<1>3. Contents(f) = [x \in Name |-> Contents(f)[x]]
  BY DEF Contents
<1>. HIDE DEF old
<1>4. Contents(f) = [x \in Name |-> IF x = old THEN <<>>
                                    ELSE IF x = n THEN Contents(e)[old] ELSE Contents(e)[x]]
  BY <1>2, <1>3, Zenon
<1>. QED
  BY <1>4 DEF old

\* A rename and the record of it
LEMMA RenameIsUndone ==
    ASSUME NEW e \in Editor, NEW b \in 1..Len(e.buffers), NEW n \in Name,
           Listed(e), e.buffers[b].open, n # NameOf(e, b), Contents(e)[n] = <<>>
    PROVE  LET f == Renamed(e, b, n)
               v == UndoOfRename(e, b)
               g == Renamed(f, b, v.name)
           IN  /\ f \in Editor /\ Listed(f)
               /\ v \in Undo /\ v.op = "rename" /\ v.buffer = b
               /\ b \in 1..Len(f.buffers) /\ f.buffers[b].open
               /\ v.name # NameOf(f, b) /\ Contents(f)[v.name] = <<>>
               /\ g \in Editor /\ Listed(g) /\ Contents(g) = Contents(e)
<1>. DEFINE old == NameOf(e, b)
            f == Renamed(e, b, n)
            g == Renamed(f, b, old)
            v == UndoOfRename(e, b)
<1>1. b \in Nat /\ Len(e.buffers) \in Nat /\ old \in Name /\ n # old
  BY BufferType
<1>2. v = [op |-> "rename", buffer |-> b, name |-> old]
  BY DEF UndoOfRename
<1>3. v \in Undo /\ v.op = "rename" /\ v.buffer = b /\ v.name = old
  BY <1>1, <1>2 DEF Undo
<1>4. IsRenamed(f, e, b, n)
  BY RenamedProperties
<1>. HIDE DEF f, v
<1>5. Listed(f) /\ f \in Editor
  BY <1>4, RenamedListed DEF IsRenamed
<1>6. b \in 1..Len(f.buffers)
  BY <1>1, <1>4 DEF IsRenamed
<1>7. NameOf(f, b) = n /\ f.buffers[b].open
  <2>1. BufferOf(e, n) # b
    BY <1>1 DEF Listed
  <2>. QED
    BY <1>4, <2>1 DEF IsRenamed
<1>8. \A x \in Name : Contents(f)[x] = IF x = old THEN <<>>
                                       ELSE IF x = n THEN Contents(e)[old] ELSE Contents(e)[x]
  <2>1. Contents(f) = [x \in Name |-> IF x = old THEN <<>>
                                      ELSE IF x = n THEN Contents(e)[old] ELSE Contents(e)[x]]
    BY <1>4, RenamedContents
  <2>. QED
    BY <2>1
<1>9. IsRenamed(g, f, b, old)
  BY <1>1, <1>5, <1>6, <1>7, RenamedProperties
<1>. HIDE DEF g
<1>10. Listed(g) /\ g \in Editor
  BY <1>1, <1>5, <1>6, <1>7, <1>9, RenamedListed DEF IsRenamed
<1>11. Contents(g) = [x \in Name |-> IF x = n THEN <<>>
                                     ELSE IF x = old THEN Contents(f)[n] ELSE Contents(f)[x]]
  <2>1. Contents(g) = [x \in Name |-> IF x = NameOf(f, b) THEN <<>>
                                      ELSE IF x = old THEN Contents(f)[NameOf(f, b)] ELSE Contents(f)[x]]
    BY <1>1, <1>5, <1>6, <1>7, <1>9, RenamedContents
  <2>. QED
    BY <1>7, <2>1
<1>. HIDE DEF old
<1>12. \A x \in Name : Contents(g)[x] = Contents(e)[x]
  <2>. TAKE x \in Name
  <2>1. Contents(g)[x] = IF x = n THEN <<>> ELSE IF x = old THEN Contents(f)[n] ELSE Contents(f)[x]
    BY <1>11
  <2>2. CASE x = n
    BY <2>1, <2>2
  <2>3. CASE x # n /\ x = old
    <3>1. Contents(f)[n] = Contents(e)[old]
      BY <1>1, <1>8
    <3>. QED
      BY <2>1, <2>3, <3>1
  <2>4. CASE x # n /\ x # old
    BY <1>8, <2>1, <2>4
  <2>. QED
    BY <2>2, <2>3, <2>4
<1>13. Contents(g) = Contents(e)
  <2>1. Contents(g) = [x \in Name |-> Contents(g)[x]] /\ Contents(e) = [x \in Name |-> Contents(e)[x]]
    BY DEF Contents
  <2>2. [x \in Name |-> Contents(g)[x]] = [x \in Name |-> Contents(e)[x]]
    BY <1>12, Zenon
  <2>. QED
    BY <2>1, <2>2
<1>14. v.name # NameOf(f, b) /\ Contents(f)[v.name] = <<>>
  BY <1>1, <1>3, <1>7, <1>8
<1>. QED
  BY <1>3, <1>5, <1>6, <1>7, <1>10, <1>13, <1>14 DEF f, g, v

\* A round of editorApplyUndos() makes an editor of an editor, and what it
\* notes can be applied there, all of it, and gives the texts back: undoing, and
\* undoing that, however an edit overlaps another, and for blocks that are moved
\* within a text as well as to another one
THEOREM EditIsUndone ==
    ASSUME NEW e \in Editor, NEW u, Listed(e), Fits(e, u)
    PROVE  LET f == Applied(e, u)
               v == UndoOf(e, u)
               g == Applied(f, v)
           IN  /\ f \in Editor /\ Listed(f) /\ Exact(f, v)
               /\ g \in Editor /\ Listed(g) /\ Contents(g) = Contents(e)
<1>. DEFINE f == Applied(e, u)
            v == UndoOf(e, u)
            g == Applied(f, v)
            b == u.buffer
<1>1. u \in Undo /\ b \in 1..Len(e.buffers) /\ e.buffers[b].open
  BY DEF Fits
<1>2. CASE u.op = "replace"
  <2>1. u.offset \in 0..Len(TextOf(e, b)) /\ u.size \in Nat /\ u.str \in Seq(Char)
    BY <1>1, <1>2 DEF Fits, Undo
  <2>2. f = Replaced(e, b, u.offset, u.size, u.str)
    BY <1>2 DEF Applied
  <2>3. v = UndoOfReplace(e, b, u.offset, u.size, u.str)
    BY <1>2 DEF UndoOf
  <2>4. /\ SameBuffers(f, e)
        /\ v \in Undo /\ v.op = "replace" /\ v.buffer = b /\ v.offset = u.offset
        /\ u.offset + v.size <= Len(TextOf(f, b))
        /\ SameBuffers(Replaced(f, b, u.offset, v.size, v.str), e)
        /\ \A c \in 1..Len(e.buffers) :
              TextOf(Replaced(f, b, u.offset, v.size, v.str), c) = TextOf(e, c)
    BY <1>1, <2>1, <2>2, <2>3, ReplaceIsUndone, SMTT(30)
  <2>. HIDE DEF f, v
  <2>5. g = Replaced(f, b, u.offset, v.size, v.str)
    BY <2>4 DEF Applied
  <2>6. SameBuffers(g, e) /\ Contents(g) = Contents(e)
    BY <2>4, <2>5, SameContents
  <2>. HIDE DEF g
  <2>7. Listed(f) /\ Listed(g) /\ f \in Editor /\ g \in Editor
    BY <2>4, <2>6, SameBuffersListed DEF SameBuffers
  <2>8. b \in 1..Len(f.buffers) /\ f.buffers[b].open
    BY <1>1, <2>4 DEF SameBuffers
  <2>9. u.offset \in Nat /\ v.size \in Nat /\ Len(TextOf(f, b)) \in Nat
    <3>1. v.size \in Nat
      BY <2>4 DEF Undo
    <3>. QED
      BY <2>1, <2>7, <2>8, <3>1, BufferType
  <2>10. v.offset \in 0..Len(TextOf(f, b))
    BY <2>4, <2>9
  <2>11. Exact(f, v)
    BY <2>4, <2>8, <2>10 DEF Exact, Fits
  <2>. QED
    BY <2>6, <2>7, <2>11 DEF f, v, g
<1>3. CASE u.op = "rename"
  <2>1. u.name \in Name /\ u.name # NameOf(e, b) /\ Contents(e)[u.name] = <<>>
    BY <1>1, <1>3 DEF Fits, Undo
  <2>2. f = Renamed(e, b, u.name)
    BY <1>3 DEF Applied
  <2>3. v = UndoOfRename(e, b)
    BY <1>3 DEF UndoOf
  <2>4. /\ f \in Editor /\ Listed(f)
        /\ v \in Undo /\ v.op = "rename" /\ v.buffer = b
        /\ b \in 1..Len(f.buffers) /\ f.buffers[b].open
        /\ v.name # NameOf(f, b) /\ Contents(f)[v.name] = <<>>
        /\ Renamed(f, b, v.name) \in Editor /\ Listed(Renamed(f, b, v.name))
        /\ Contents(Renamed(f, b, v.name)) = Contents(e)
    BY <1>1, <2>1, <2>2, <2>3, RenameIsUndone
  <2>. HIDE DEF f, v
  <2>5. g = Renamed(f, b, v.name)
    BY <2>4 DEF Applied
  <2>. HIDE DEF g
  <2>6. Exact(f, v)
    BY <2>4 DEF Exact, Fits
  <2>. QED
    BY <2>4, <2>5, <2>6 DEF f, v, g
<1>4. CASE u.op = "move"
  <2>. DEFINE p == From(u)
              q == To(u)
              k == u.size
  <2>1. Block(e, p, q, k) /\ e.buffers[u.dbuffer].open
    BY <1>4 DEF Fits
  <2>2. f = Moved(e, p, q, k)
    BY <1>4, <2>1 DEF Applied, Block
  <2>3. v = UndoOfMove(p, q, k)
    BY <1>4 DEF UndoOf
  <2>4. p.buffer = b /\ q.buffer = u.dbuffer
    BY DEF From, To
  <2>. HIDE DEF p, q, k
  <2>5. /\ SameBuffers(f, e)
        /\ v \in Undo /\ v.op = "move" /\ v.buffer = q.buffer /\ v.dbuffer = p.buffer
        /\ Block(f, From(v), To(v), v.size)
        /\ SameBuffers(Moved(f, From(v), To(v), v.size), e)
        /\ \A c \in 1..Len(e.buffers) :
              TextOf(Moved(f, From(v), To(v), v.size), c) = TextOf(e, c)
    BY <2>1, <2>2, <2>3, MoveIsUndone
  <2>. HIDE DEF f, v
  <2>6. g = Moved(f, From(v), To(v), v.size)
    BY <2>5 DEF Applied, Block
  <2>7. SameBuffers(g, e) /\ Contents(g) = Contents(e)
    BY <2>5, <2>6, SameContents
  <2>. HIDE DEF g
  <2>8. Listed(f) /\ Listed(g) /\ f \in Editor /\ g \in Editor
    BY <2>5, <2>7, SameBuffersListed DEF SameBuffers
  <2>9. /\ v.buffer \in 1..Len(f.buffers)
        /\ f.buffers[v.buffer].open /\ f.buffers[v.dbuffer].open
    <3>1. q.buffer \in 1..Len(e.buffers)
      BY <2>1 DEF Block
    <3>. QED
      BY <1>1, <2>1, <2>4, <2>5, <3>1 DEF SameBuffers
  <2>10. Exact(f, v)
    BY <2>5, <2>9 DEF Exact, Fits
  <2>. QED
    BY <2>7, <2>8, <2>10 DEF f, v, g
<1>5. u.op \in {"replace", "rename", "move"}
  BY <1>1 DEF Undo
<1>. QED
  BY <1>2, <1>3, <1>4, <1>5

\* No edit, and no round of editorApplyUndos(), leaves a marker beyond the end of
\* its text: not a deletion around it, and not a move of the block it is in
THEOREM MarkersStayIn ==
    ASSUME NEW e \in Editor, NEW u, Listed(e), Fits(e, u), MarkersIn(e)
    PROVE  MarkersIn(Applied(e, u))
<1>. DEFINE b == u.buffer
<1>1. u \in Undo /\ b \in 1..Len(e.buffers) /\ e.buffers[b].open
  BY DEF Fits
<1>2. CASE u.op = "replace"
  <2>1. u.offset \in 0..Len(TextOf(e, b)) /\ u.size \in Nat /\ u.str \in Seq(Char)
    BY <1>1, <1>2 DEF Fits, Undo
  <2>. QED
    BY <1>1, <1>2, <2>1, ReplacedMarkers DEF Applied
<1>3. CASE u.op = "rename"
  <2>. DEFINE f == Renamed(e, b, u.name)
  <2>1. u.name \in Name /\ u.name # NameOf(e, b)
    BY <1>1, <1>3 DEF Fits, Undo
  <2>2. IsRenamed(f, e, b, u.name)
    BY <1>1, <2>1, RenamedProperties
  <2>. HIDE DEF f
  <2>3. /\ f.markers = e.markers /\ Len(f.buffers) = Len(e.buffers) + 1
        /\ \A c \in 1..Len(e.buffers) : TextOf(f, c) = TextOf(e, c)
    BY <2>2 DEF IsRenamed
  <2>4. \A c \in 1..Len(e.buffers) : c \in 1..Len(f.buffers)
    BY <1>1, <2>3, BufferType
  <2>5. MarkersIn(f)
    BY <2>3, <2>4 DEF MarkersIn
  <2>. QED
    BY <1>3, <2>5 DEF Applied, f
<1>4. CASE u.op = "move"
  <2>1. Block(e, From(u), To(u), u.size)
    BY <1>4 DEF Fits
  <2>2. MarkersIn(Moved(e, From(u), To(u), u.size))
    BY <2>1, MovedProperties
  <2>. QED
    BY <1>4, <2>1, <2>2 DEF Applied, Block
<1>5. u.op \in {"replace", "rename", "move"}
  BY <1>1 DEF Undo
<1>. QED
  BY <1>2, <1>3, <1>4, <1>5

-----------------------------------------------------------------------------
(* The client *)

\* A file's text is that of its buffer
LEMMA ContentsOfOpen ==
    ASSUME NEW e \in Editor, NEW b \in 1..Len(e.buffers), Listed(e), e.buffers[b].open
    PROVE  /\ NameOf(e, b) \in Name /\ BufferOf(e, NameOf(e, b)) = b /\ b # 0
           /\ Contents(e)[NameOf(e, b)] = TextOf(e, b)
<1>1. NameOf(e, b) \in Name /\ b # 0
  BY BufferType
<1>2. BufferOf(e, NameOf(e, b)) = b
  BY <1>1 DEF Listed
<1>. QED
  BY <1>1, <1>2 DEF Contents

OneTextIs(f, e, b, t) ==
    \A c \in 1..Len(e.buffers) : TextOf(f, c) = IF c = b THEN t ELSE TextOf(e, c)
OneFileIs(f, e, b, t) == Contents(f) = [Contents(e) EXCEPT ![NameOf(e, b)] = t]

\* The text of an open buffer is that of one file
LEMMA OneText ==
    ASSUME NEW e \in Editor, NEW f, NEW b \in 1..Len(e.buffers), NEW t,
           Listed(e), e.buffers[b].open, SameBuffers(f, e), OneTextIs(f, e, b, t)
    PROVE  OneFileIs(f, e, b, t)
<1>. DEFINE old == NameOf(e, b)
<1>1. old \in Name /\ BufferOf(e, old) = b /\ b # 0
  BY ContentsOfOpen
<1>. HIDE DEF old
<1>2. ASSUME NEW x \in Name
      PROVE  Contents(f)[x] = IF x = old THEN t ELSE Contents(e)[x]
  <2>1. /\ Contents(e)[x] = IF BufferOf(e, x) = 0 THEN <<>> ELSE TextOf(e, BufferOf(e, x))
        /\ Contents(f)[x] = IF BufferOf(f, x) = 0 THEN <<>> ELSE TextOf(f, BufferOf(f, x))
    BY DEF Contents
  <2>2. BufferOf(f, x) = BufferOf(e, x) /\ BufferOf(e, x) \in 0..Len(e.buffers)
    BY DEF SameBuffers, BufferOf, Listed
  <2>3. Len(e.buffers) \in Nat
    BY BufferType
  <2>4. CASE x = old
    BY <1>1, <2>1, <2>2, <2>4 DEF OneTextIs
  <2>5. CASE x # old
    <3>1. BufferOf(e, x) # b
      BY <2>5 DEF Listed, old
    <3>2. BufferOf(e, x) # 0 => BufferOf(e, x) \in 1..Len(e.buffers)
      BY <2>2, <2>3
    <3>. QED
      BY <2>1, <2>2, <2>5, <3>1, <3>2 DEF OneTextIs
  <2>. QED
    BY <2>4, <2>5
<1>3. Contents(f) = [x \in Name |-> Contents(f)[x]] /\ Contents(e) = [x \in Name |-> Contents(e)[x]]
  BY DEF Contents
<1>. DEFINE C == Contents(e)
            D == Contents(f)
<1>. HIDE DEF C, D
<1>4. D = [x \in Name |-> IF x = old THEN t ELSE C[x]]
  BY <1>2, <1>3 DEF C, D
<1>5. [C EXCEPT ![old] = t] = [x \in Name |-> IF x = old THEN t ELSE C[x]]
  <2>1. DOMAIN C = Name
    BY DEF C, Contents
  <2>2. C = [x \in Name |-> C[x]]
    BY <1>3 DEF C
  <2>. QED
    BY <1>1, <2>1, <2>2
<1>. QED
  BY <1>4, <1>5 DEF OneFileIs, C, D, old

TwoTextsAre(f, e, a, r, b, t) ==
    \A c \in 1..Len(e.buffers) :
        TextOf(f, c) = IF c = a THEN r ELSE IF c = b THEN t ELSE TextOf(e, c)
TwoFilesAre(f, e, a, r, b, t) ==
    /\ NameOf(e, a) # NameOf(e, b)
    /\ Contents(f) = [x \in Name |-> IF x = NameOf(e, a) THEN r
                                     ELSE IF x = NameOf(e, b) THEN t ELSE Contents(e)[x]]

\* The texts of two open buffers are those of two files
LEMMA TwoTexts ==
    ASSUME NEW e \in Editor, NEW f, NEW a \in 1..Len(e.buffers), NEW b \in 1..Len(e.buffers),
           NEW r, NEW t, a # b, Listed(e), e.buffers[a].open, e.buffers[b].open,
           SameBuffers(f, e), TwoTextsAre(f, e, a, r, b, t)
    PROVE  TwoFilesAre(f, e, a, r, b, t)
<1>. DEFINE na == NameOf(e, a)
            nb == NameOf(e, b)
<1>1. /\ na \in Name /\ BufferOf(e, na) = a /\ a # 0
      /\ nb \in Name /\ BufferOf(e, nb) = b /\ b # 0
  BY ContentsOfOpen
<1>2. \A x \in Name : (BufferOf(e, x) = a => x = na) /\ (BufferOf(e, x) = b => x = nb)
  BY DEF Listed
<1>. HIDE DEF na, nb
<1>3. ASSUME NEW x \in Name
      PROVE  Contents(f)[x] = IF x = na THEN r ELSE IF x = nb THEN t ELSE Contents(e)[x]
  <2>1. /\ Contents(e)[x] = IF BufferOf(e, x) = 0 THEN <<>> ELSE TextOf(e, BufferOf(e, x))
        /\ Contents(f)[x] = IF BufferOf(f, x) = 0 THEN <<>> ELSE TextOf(f, BufferOf(f, x))
    BY DEF Contents
  <2>2. BufferOf(f, x) = BufferOf(e, x) /\ BufferOf(e, x) \in 0..Len(e.buffers)
    BY DEF SameBuffers, BufferOf, Listed
  <2>3. Len(e.buffers) \in Nat
    BY BufferType
  <2>4. CASE x = na
    BY <1>1, <2>1, <2>2, <2>4 DEF TwoTextsAre
  <2>5. CASE x # na /\ x = nb
    BY <1>1, <2>1, <2>2, <2>5 DEF TwoTextsAre
  <2>6. CASE x # na /\ x # nb
    <3>1. BufferOf(e, x) # a /\ BufferOf(e, x) # b
      BY <1>2, <2>6
    <3>2. BufferOf(e, x) # 0 => BufferOf(e, x) \in 1..Len(e.buffers)
      BY <2>2, <2>3
    <3>. QED
      BY <2>1, <2>2, <2>6, <3>1, <3>2 DEF TwoTextsAre
  <2>. QED
    BY <2>4, <2>5, <2>6
<1>4. Contents(f) = [x \in Name |-> Contents(f)[x]]
  BY DEF Contents
<1>5. Contents(f) = [x \in Name |-> IF x = na THEN r ELSE IF x = nb THEN t ELSE Contents(e)[x]]
  BY <1>3, <1>4, Zenon
<1>6. na # nb
  BY <1>1
<1>. QED
  BY <1>5, <1>6 DEF TwoFilesAre, na, nb

\* A client with the server's texts that cuts and pastes a block has the
\* server's texts again
LEMMA ClientMoves ==
    ASSUME NEW e \in Editor, NEW u, Listed(e), Exact(e, u), u.op = "move"
    PROVE  ClientMoved(Contents(e), e, u) = Contents(Applied(e, u))
<1>. DEFINE p == From(u)
            q == To(u)
            k == u.size
            b == u.buffer
            c == u.dbuffer
            f == Applied(e, u)
            C == Contents(e)
            na == NameOf(e, b)
            nc == NameOf(e, c)
            to == Landed(p, q, k)
            from == Displaced(p, q, k)
            block == BlockOf(e, p, k)
            none == <<>>
            tb == TextOf(e, b)
            tc == TextOf(e, c)
            cut == [C EXCEPT ![na] = Cut(C[na], u.offset, k, none)]
<1>1. /\ Block(e, p, q, k) /\ e.buffers[b].open /\ e.buffers[c].open
      /\ p.buffer = b /\ q.buffer = c /\ p.offset = u.offset /\ q.offset = u.doffset
  BY DEF Exact, Fits, From, To
<1>2. /\ b \in 1..Len(e.buffers) /\ c \in 1..Len(e.buffers)
      /\ p.offset \in Nat /\ q.offset \in Nat /\ k \in Nat
      /\ p.offset + k <= Len(tb) /\ q.offset <= Len(tc)
      /\ tb \in Seq(Char) /\ tc \in Seq(Char)
  <2>1. b \in 1..Len(e.buffers) /\ c \in 1..Len(e.buffers) /\ p \in Place /\ q \in Place
    BY <1>1 DEF Block
  <2>. QED
    BY <1>1, <2>1, BufferType DEF Block, Place
<1>3. f = Moved(e, p, q, k)
  BY <1>1 DEF Applied, Block
<1>. HIDE DEF f
<1>4. /\ SameBuffers(f, e)
      /\ \A x \in 1..Len(e.buffers) :
            TextOf(f, x) = IF x = b THEN Cut(WithBlock(e, p, q, k, x), from.offset, k, none)
                           ELSE WithBlock(e, p, q, k, x)
  BY <1>1, <1>3, MovedProperties
<1>5. /\ C[na] = tb /\ C[nc] = tc /\ na \in Name /\ nc \in Name
      /\ DOMAIN C = Name /\ C = [x \in Name |-> C[x]]
  BY <1>1, <1>2, ContentsOfOpen DEF Contents
<1>6. to.buffer = c
  <2>1. from.buffer = b
    BY <1>1 DEF Displaced
  <2>. QED
    BY <1>1, <2>1 DEF Landed
<1>7. ClientMoved(C, e, u) = [cut EXCEPT ![nc] = Cut(cut[nc], to.offset, 0, block)]
  <2>1. block = SubSeq(C[na], u.offset + 1, u.offset + k)
    BY <1>1, <1>5 DEF BlockOf
  <2>. HIDE DEF block, C
  <2>. QED
    BY <1>6, <2>1 DEF ClientMoved
<1>. DEFINE h == [cut EXCEPT ![nc] = Cut(cut[nc], to.offset, 0, block)]
            taken == Cut(tb, p.offset, k, none)
<1>8. cut = [C EXCEPT ![na] = taken] /\ cut[na] = taken
  BY <1>1, <1>5
<1>. HIDE DEF p, q, k, from, to, block, tb, tc, C, taken, none, cut
<1>9. CASE b = c
  <2>. DEFINE too == to.offset
              fr == from.offset
              room == Cut(tb, q.offset, 0, block)
              pasted == Cut(taken, too, 0, block)
  <2>1. p.buffer = q.buffer /\ na = nc
    BY <1>1, <1>9
  <2>2. fr = Shift(p.offset, q.offset, 0, k) /\ too = Shift(q.offset, fr, k, 0)
    <3>1. from = [p EXCEPT !.offset = Shift(p.offset, q.offset, 0, k)]
      BY <2>1 DEF Displaced, from
    <3>2. p \in Place /\ q \in Place
      BY <1>1 DEF Block
    <3>3. from.buffer = q.buffer /\ fr = Shift(p.offset, q.offset, 0, k)
      BY <2>1, <3>1, <3>2 DEF Place
    <3>. HIDE DEF fr
    <3>4. to = [q EXCEPT !.offset = Shift(q.offset, from.offset, k, 0)]
      BY <3>3 DEF Landed, to, from
    <3>. QED
      BY <3>2, <3>3, <3>4 DEF Place, fr
  <2>3. Cut(room, fr, k, none) = pasted
    <3>1. MovesRight(tb, p.offset, q.offset, k)
      <4>1. ~(p.offset < q.offset /\ q.offset < p.offset + k)
        BY <1>1, <2>1 DEF Block, IntoItself
      <4>2. q.offset <= Len(tb)
        BY <1>2, <1>9 DEF tb, tc
      <4>. QED
        BY <1>2, <4>1, <4>2, MovedInOneText
    <3>2. block = SubSeq(tb, p.offset + 1, p.offset + k)
      BY <1>1 DEF block, BlockOf, tb
    <3>. QED
      BY <2>2, <3>1, <3>2 DEF MovesRight, none, taken
  <2>4. WithBlock(e, p, q, k, b) = room
    BY <1>1, <1>9 DEF WithBlock, tb, block
  <2>5. \A x \in 1..Len(e.buffers) : x # b => WithBlock(e, p, q, k, x) = TextOf(e, x)
    BY <1>1, <1>9 DEF WithBlock
  <2>. HIDE DEF pasted
  <2>6. \A x \in 1..Len(e.buffers) : TextOf(f, x) = IF x = b THEN pasted ELSE TextOf(e, x)
    BY <1>4, <2>3, <2>4, <2>5
  <2>7. Contents(f) = [C EXCEPT ![na] = pasted]
    <3>1. OneTextIs(f, e, b, pasted)
      BY <2>6 DEF OneTextIs
    <3>2. OneFileIs(f, e, b, pasted)
      BY <1>1, <1>2, <1>4, <3>1, OneText
    <3>. QED
      BY <3>2 DEF OneFileIs, C
  <2>8. h = [cut EXCEPT ![na] = pasted]
    BY <1>8, <2>1 DEF pasted
  <2>9. [cut EXCEPT ![na] = pasted] = [C EXCEPT ![na] = pasted]
    BY <1>5, <1>8
  <2>. QED
    BY <1>7, <2>7, <2>8, <2>9 DEF f, C
<1>10. CASE b # c
  <2>. DEFINE pasted == Cut(tc, to.offset, 0, block)
  <2>1. from = p /\ to = q
    BY <1>1, <1>10 DEF Displaced, Landed, from, to
  <2>2. WithBlock(e, p, q, k, b) = tb /\ WithBlock(e, p, q, k, c) = pasted
    BY <1>1, <1>10, <2>1 DEF WithBlock, tb, tc, block
  <2>3. \A x \in 1..Len(e.buffers) : x # c => WithBlock(e, p, q, k, x) = TextOf(e, x)
    BY <1>1 DEF WithBlock
  <2>. HIDE DEF pasted
  <2>4. \A x \in 1..Len(e.buffers) :
           TextOf(f, x) = IF x = b THEN taken ELSE IF x = c THEN pasted ELSE TextOf(e, x)
    BY <1>2, <1>4, <1>10, <2>1, <2>2, <2>3 DEF taken
  <2>5. /\ na # nc
        /\ Contents(f) = [x \in Name |-> IF x = na THEN taken ELSE IF x = nc THEN pasted ELSE C[x]]
    <3>1. TwoTextsAre(f, e, b, taken, c, pasted)
      BY <2>4 DEF TwoTextsAre
    <3>2. TwoFilesAre(f, e, b, taken, c, pasted)
      BY <1>1, <1>2, <1>4, <1>10, <3>1, TwoTexts
    <3>. QED
      BY <3>2 DEF TwoFilesAre, C
  <2>6. cut[nc] = tc
    BY <1>5, <1>8, <2>5
  <2>7. h = [cut EXCEPT ![nc] = pasted]
    BY <2>6 DEF pasted
  <2>8. [cut EXCEPT ![nc] = pasted] =
           [x \in Name |-> IF x = na THEN taken ELSE IF x = nc THEN pasted ELSE C[x]]
    <3>. HIDE DEF na, nc
    <3>1. cut = [x \in Name |-> IF x = na THEN taken ELSE C[x]]
      BY <1>5, <1>8
    <3>. QED
      BY <1>5, <2>5, <3>1
  <2>. QED
    BY <1>7, <2>5, <2>7, <2>8 DEF f, C
<1>. QED
  BY <1>9, <1>10

\* What one round outputs makes of a client with the server's texts a client
\* with the texts that the round gives the server: where the block is when it is
\* taken out, where the place for it is by then, and the deletion that is clamped
\* in the server's buffer and not in the output, come to the same
THEOREM ClientKeepsUp ==
    ASSUME NEW e \in Editor, NEW u, Listed(e), Exact(e, u)
    PROVE  ClientApplied(Contents(e), e, u) = Contents(Applied(e, u))
<1>. DEFINE b == u.buffer
            C == Contents(e)
            old == NameOf(e, b)
<1>1. u \in Undo /\ Fits(e, u) /\ b \in 1..Len(e.buffers) /\ e.buffers[b].open
  BY DEF Exact, Fits
<1>2. old \in Name /\ C[old] = TextOf(e, b) /\ DOMAIN C = Name /\ C = [x \in Name |-> C[x]]
  BY <1>1, ContentsOfOpen DEF Contents
<1>3. CASE u.op = "replace"
  <2>. DEFINE t == TextOf(e, b)
              f == Replaced(e, b, u.offset, u.size, u.str)
              new == Cut(t, u.offset, u.size, u.str)
  <2>1. /\ u.offset \in 0..Len(t) /\ u.size \in Nat /\ u.str \in Seq(Char)
        /\ u.offset + u.size <= Len(t)
    BY <1>1, <1>3 DEF Exact, Fits, Undo
  <2>2. t \in Seq(Char) /\ Len(t) \in Nat
    BY <1>1, BufferType
  <2>3. Clamped(t, u.offset, u.size) = u.size
    BY <2>1, <2>2 DEF Clamped
  <2>4. WithText(f, e, b, Cut(t, u.offset, Clamped(t, u.offset, u.size), u.str))
    BY <1>1, <2>1, ReplacedProperties
  <2>. HIDE DEF f
  <2>5. WithText(f, e, b, new)
    BY <2>3, <2>4
  <2>. HIDE DEF new
  <2>6. /\ SameBuffers(f, e)
        /\ \A x \in 1..Len(e.buffers) : TextOf(f, x) = IF x = b THEN new ELSE TextOf(e, x)
    BY <2>5, WithTextSame
  <2>7. Contents(f) = [C EXCEPT ![old] = new]
    <3>1. OneTextIs(f, e, b, new)
      BY <2>6 DEF OneTextIs
    <3>2. OneFileIs(f, e, b, new)
      BY <1>1, <2>6, <3>1, OneText
    <3>. QED
      BY <3>2 DEF OneFileIs
  <2>8. ClientApplied(C, e, u) = [C EXCEPT ![old] = new]
    BY <1>2, <1>3 DEF ClientApplied, new
  <2>9. Applied(e, u) = f
    BY <1>3 DEF Applied, f
  <2>. QED
    BY <2>7, <2>8, <2>9
<1>4. CASE u.op = "rename"
  <2>. DEFINE n == u.name
              f == Renamed(e, b, n)
  <2>1. n \in Name /\ n # old
    BY <1>1, <1>4 DEF Fits, Undo
  <2>2. IsRenamed(f, e, b, n)
    BY <1>1, <2>1, RenamedProperties
  <2>3. Contents(f) = [x \in Name |-> IF x = old THEN <<>> ELSE IF x = n THEN C[old] ELSE C[x]]
    BY <1>1, <2>1, <2>2, RenamedContents
  <2>4. ClientApplied(C, e, u) = [C EXCEPT ![n] = C[old], ![old] = <<>>]
    BY <1>4 DEF ClientApplied
  <2>5. Applied(e, u) = f
    BY <1>4 DEF Applied
  <2>. HIDE DEF C, old, n, f
  <2>6. [C EXCEPT ![n] = C[old], ![old] = <<>>] =
           [x \in Name |-> IF x = old THEN <<>> ELSE IF x = n THEN C[old] ELSE C[x]]
    BY <1>2, <2>1
  <2>. QED
    BY <2>3, <2>4, <2>5, <2>6 DEF C
<1>5. CASE u.op = "move"
  BY <1>5, ClientMoves DEF ClientApplied
<1>6. u.op \in {"replace", "rename", "move"}
  BY <1>1 DEF Undo
<1>. QED
  BY <1>3, <1>4, <1>5, <1>6

-----------------------------------------------------------------------------
(* Trails of editors                                                       *)

\* The buffers that the records after the i-th are about
TouchedAfter(us, i) == {c \in Nat : \E j \in (i + 1)..Len(us) : Touches(us[j], c)}

Live(e, B) == \A c \in B : c \in 1..Len(e.buffers) /\ e.buffers[c].open

\* The same files, and the same buffers of B.  Buffers that a rename has made and
\* left behind are not compared
Alike(e, g, B) ==
    /\ e \in Editor /\ g \in Editor /\ Listed(e) /\ Listed(g)
    /\ Contents(e) = Contents(g)
    /\ Live(e, B) /\ Live(g, B)
    /\ \A c \in B : NameOf(e, c) = NameOf(g, c)

\* Each record fits the editor it is applied to, and takes it to the next one as
\* far as the records that are left can tell
Trail(tr, us, e) ==
    /\ tr \in [0..Len(us) -> Editor]
    /\ Alike(e, tr[0], TouchedAfter(us, 0))
    /\ \A i \in 1..Len(us) :
          /\ Exact(tr[i - 1], us[i])
          /\ Alike(Applied(tr[i - 1], us[i]), tr[i], TouchedAfter(us, i))

LeadsTo(us, e, texts) ==
    \E tr : Trail(tr, us, e) /\ Contents(tr[Len(us)]) = texts

LEMMA AlikeTransitive ==
    ASSUME NEW e, NEW f, NEW g, NEW B, Alike(e, f, B), Alike(f, g, B)
    PROVE  Alike(e, g, B)
BY DEF Alike

LEMMA AlikeSmaller ==
    ASSUME NEW e, NEW f, NEW B, NEW C, Alike(e, f, B), C \subseteq B
    PROVE  Alike(e, f, C)
BY DEF Alike, Live

\* Buffers that are alike have the same text
LEMMA AlikeTexts ==
    ASSUME NEW e, NEW g, NEW B, NEW c \in B, Alike(e, g, B)
    PROVE  TextOf(e, c) = TextOf(g, c)
<1>1. e \in Editor /\ Listed(e) /\ c \in 1..Len(e.buffers) /\ e.buffers[c].open
  BY DEF Alike, Live
<1>2. g \in Editor /\ Listed(g) /\ c \in 1..Len(g.buffers) /\ g.buffers[c].open
  BY DEF Alike, Live
<1>3. Contents(e)[NameOf(e, c)] = TextOf(e, c) /\ Contents(g)[NameOf(g, c)] = TextOf(g, c)
  BY <1>1, <1>2, ContentsOfOpen
<1>4. Contents(e) = Contents(g) /\ NameOf(e, c) = NameOf(g, c)
  BY DEF Alike
<1>. QED
  BY <1>3, <1>4

\* What a round does to the buffers: only a rename gives a name and closes one
LEMMA AppliedBuffers ==
    ASSUME NEW e \in Editor, NEW u, Listed(e), Fits(e, u)
    PROVE  LET f == Applied(e, u)
               N == Len(e.buffers)
           IN  /\ f \in Editor /\ Listed(f) /\ Len(f.buffers) \in Nat /\ Len(f.buffers) >= N
               /\ \A c \in 1..N :
                     /\ NameOf(f, c) = IF u.op = "rename" /\ c = u.buffer THEN u.name
                                       ELSE NameOf(e, c)
                     /\ f.buffers[c].open <=>
                           e.buffers[c].open /\ ~(u.op = "rename" /\ c = BufferOf(e, u.name))
               /\ u.op = "rename" => BufferOf(f, NameOf(e, u.buffer)) = N + 1
               /\ \A n \in Name : BufferOf(e, n) # 0 => BufferOf(f, n) # 0
<1>. DEFINE b == u.buffer
            f == Applied(e, u)
            N == Len(e.buffers)
<1>1. u \in Undo /\ b \in 1..N /\ e.buffers[b].open /\ N \in Nat /\ NameOf(e, b) \in Name
  BY BufferType DEF Fits
<1>2. CASE u.op = "rename"
  <2>. DEFINE n == u.name
  <2>1. n \in Name /\ n # NameOf(e, b)
    BY <1>1, <1>2 DEF Fits, Undo
  <2>2. IsRenamed(f, e, b, n)
    BY <1>1, <1>2, <2>1, RenamedProperties DEF Applied
  <2>. HIDE DEF f
  <2>3. Listed(f)
    BY <1>1, <2>1, <2>2, RenamedListed
  <2>4. /\ f \in Editor /\ Len(f.buffers) = N + 1
        /\ \A c \in 1..N :
              /\ NameOf(f, c) = IF c = b THEN n ELSE NameOf(e, c)
              /\ f.buffers[c].open <=> e.buffers[c].open /\ c # BufferOf(e, n)
        /\ \A y \in Name : BufferOf(f, y) = IF y = NameOf(e, b) THEN N + 1
                                            ELSE IF y = n THEN b ELSE BufferOf(e, y)
    BY <2>2 DEF IsRenamed
  <2>5. BufferOf(f, NameOf(e, b)) = N + 1
    BY <1>1, <2>4
  <2>6. \A y \in Name : BufferOf(e, y) # 0 => BufferOf(f, y) # 0
    BY <1>1, <2>4
  <2>7. Len(f.buffers) \in Nat /\ Len(f.buffers) >= N
    BY <1>1, <2>4
  <2>. HIDE DEF n
  <2>. QED
    BY <1>2, <2>3, <2>4, <2>5, <2>6, <2>7 DEF f, n
<1>3. CASE u.op \in {"replace", "move"}
  <2>1. SameBuffers(f, e)
    <3>1. CASE u.op = "replace"
      <4>1. u.offset \in 0..Len(TextOf(e, b)) /\ u.size \in Nat /\ u.str \in Seq(Char)
        BY <1>1, <3>1 DEF Fits, Undo
      <4>2. SameBuffers(Replaced(e, b, u.offset, u.size, u.str), e)
        BY <1>1, <4>1, ReplaceIsUndone
      <4>. QED
        BY <3>1, <4>2 DEF Applied
    <3>2. CASE u.op = "move"
      <4>1. Block(e, From(u), To(u), u.size)
        BY <3>2 DEF Fits
      <4>2. SameBuffers(Moved(e, From(u), To(u), u.size), e)
        BY <4>1, MovedProperties
      <4>. QED
        BY <3>2, <4>1, <4>2 DEF Applied, Block
    <3>. QED
      BY <1>3, <3>1, <3>2
  <2>. HIDE DEF f
  <2>2. f \in Editor /\ Listed(f)
    BY <2>1, SameBuffersListed DEF SameBuffers
  <2>3. /\ f.table = e.table /\ Len(f.buffers) = N
        /\ \A c \in 1..N : NameOf(f, c) = NameOf(e, c) /\ f.buffers[c].open = e.buffers[c].open
    BY <2>1 DEF SameBuffers
  <2>4. \A y \in Name : BufferOf(f, y) = BufferOf(e, y)
    BY <2>3 DEF BufferOf
  <2>5. u.op # "rename" /\ Len(f.buffers) \in Nat /\ Len(f.buffers) >= N
    BY <1>1, <1>3, <2>3
  <2>. QED
    BY <2>2, <2>3, <2>4, <2>5 DEF f
<1>4. u.op \in {"replace", "rename", "move"}
  BY <1>1 DEF Undo
<1>. QED
  BY <1>2, <1>3, <1>4

\* What the client does depends on its texts and on the names of the buffers
LEMMA ClientOfAlike ==
    ASSUME NEW e, NEW g, NEW c, NEW u,
           NameOf(e, u.buffer) = NameOf(g, u.buffer),
           u.op = "move" => NameOf(e, u.dbuffer) = NameOf(g, u.dbuffer)
    PROVE  ClientApplied(c, e, u) = ClientApplied(c, g, u)
<1>1. CASE u.op = "move"
  <2>1. Landed(From(u), To(u), u.size).buffer = u.dbuffer
    BY DEF Landed, From, To
  <2>. HIDE DEF Landed
  <2>2. ClientMoved(c, e, u) = ClientMoved(c, g, u)
    BY <1>1, <2>1 DEF ClientMoved
  <2>. QED
    BY <1>1, <2>2 DEF ClientApplied
<1>2. CASE u.op # "move"
  BY <1>2 DEF ClientApplied
<1>. QED
  BY <1>1, <1>2

\* A round makes alike editors of alike editors
LEMMA AlikeApplied ==
    ASSUME NEW e, NEW g, NEW B, NEW C, NEW u, Alike(e, g, B), Exact(g, u),
           \A c \in Nat : Touches(u, c) => c \in B,
           C \subseteq B, Live(Applied(g, u), C)
    PROVE  Exact(e, u) /\ Alike(Applied(e, u), Applied(g, u), C)
<1>. DEFINE b == u.buffer
            f == Applied(e, u)
            h == Applied(g, u)
<1>1. /\ e \in Editor /\ g \in Editor /\ Listed(e) /\ Listed(g) /\ Contents(e) = Contents(g)
      /\ Live(e, B) /\ Live(g, B) /\ \A c \in B : NameOf(e, c) = NameOf(g, c)
  BY DEF Alike
<1>2. /\ u \in Undo /\ b \in 1..Len(g.buffers) /\ Fits(g, u)
  BY DEF Exact, Fits
<1>3. b \in B /\ (u.op = "move" => u.dbuffer \in B)
  <2>1. b \in Nat /\ Touches(u, b)
    BY <1>1, <1>2, BufferType DEF Touches
  <2>2. u.op = "move" => u.dbuffer \in Nat /\ Touches(u, u.dbuffer)
    BY <1>2 DEF Undo, Touches
  <2>. QED
    BY <2>1, <2>2
<1>4. /\ TextOf(e, b) = TextOf(g, b) /\ NameOf(e, b) = NameOf(g, b)
      /\ b \in 1..Len(e.buffers) /\ e.buffers[b].open
      /\ u.op = "move" => /\ TextOf(e, u.dbuffer) = TextOf(g, u.dbuffer)
                          /\ NameOf(e, u.dbuffer) = NameOf(g, u.dbuffer)
                          /\ u.dbuffer \in 1..Len(e.buffers) /\ e.buffers[u.dbuffer].open
  BY <1>1, <1>3, AlikeTexts DEF Live
<1>5. Exact(e, u)
  <2>1. u.op = "move" => Block(e, From(u), To(u), u.size)
    <3>1. From(u).buffer = b /\ To(u).buffer = u.dbuffer
      BY DEF From, To
    <3>2. u.op = "move" => Block(g, From(u), To(u), u.size)
      BY <1>2 DEF Fits
    <3>. QED
      BY <1>4, <3>1, <3>2 DEF Block
  <2>2. u.op = "replace" => /\ u.offset \in 0..Len(TextOf(e, b))
                            /\ u.offset + u.size <= Len(TextOf(e, b))
    BY <1>2, <1>4 DEF Fits, Exact
  <2>3. u.op = "rename" => u.name # NameOf(e, b) /\ Contents(e)[u.name] = <<>>
    BY <1>1, <1>2, <1>4 DEF Fits
  <2>. QED
    BY <1>2, <1>4, <2>1, <2>2, <2>3 DEF Exact, Fits
<1>6. Fits(e, u)
  BY <1>5 DEF Exact
<1>7. Contents(f) = Contents(h)
  <2>1. /\ ClientApplied(Contents(e), e, u) = Contents(f)
        /\ ClientApplied(Contents(g), g, u) = Contents(h)
    BY <1>1, <1>5, ClientKeepsUp
  <2>2. ClientApplied(Contents(g), e, u) = ClientApplied(Contents(g), g, u)
    BY <1>4, ClientOfAlike
  <2>. QED
    BY <1>1, <2>1, <2>2
<1>8. /\ f \in Editor /\ Listed(f) /\ Len(f.buffers) \in Nat /\ Len(f.buffers) >= Len(e.buffers)
      /\ \A c \in 1..Len(e.buffers) :
            /\ NameOf(f, c) = IF u.op = "rename" /\ c = b THEN u.name ELSE NameOf(e, c)
            /\ f.buffers[c].open <=>
                  e.buffers[c].open /\ ~(u.op = "rename" /\ c = BufferOf(e, u.name))
  BY <1>1, <1>6, AppliedBuffers
<1>9. /\ h \in Editor /\ Listed(h)
      /\ \A c \in 1..Len(g.buffers) :
            /\ NameOf(h, c) = IF u.op = "rename" /\ c = b THEN u.name ELSE NameOf(g, c)
            /\ h.buffers[c].open <=>
                  g.buffers[c].open /\ ~(u.op = "rename" /\ c = BufferOf(g, u.name))
  BY <1>1, <1>2, AppliedBuffers
<1>. HIDE DEF f, h
<1>10. ASSUME NEW c \in C
       PROVE  /\ c \in 1..Len(f.buffers) /\ f.buffers[c].open /\ NameOf(f, c) = NameOf(h, c)
  <2>1. /\ c \in 1..Len(e.buffers) /\ e.buffers[c].open
        /\ c \in 1..Len(g.buffers) /\ g.buffers[c].open /\ NameOf(e, c) = NameOf(g, c)
    BY <1>1 DEF Live
  <2>2. h.buffers[c].open
    BY DEF Live, h
  <2>3. u.op = "rename" => c # BufferOf(e, u.name)
    <3>1. SUFFICES ASSUME u.op = "rename", c = BufferOf(e, u.name) PROVE FALSE
      OBVIOUS
    <3>2. u.name \in Name
      BY <1>2, <3>1 DEF Undo
    <3>3. NameOf(e, c) = u.name
      BY <1>1, <2>1, <3>1, <3>2 DEF Listed
    <3>4. BufferOf(g, u.name) = c
      BY <1>1, <2>1, <3>2, <3>3 DEF Listed
    <3>. QED
      BY <1>9, <2>1, <2>2, <3>1, <3>4
  <2>4. c \in 1..Len(f.buffers)
    <3>1. Len(e.buffers) \in Nat
      BY <1>1, <1>4, BufferType
    <3>. QED
      BY <1>8, <2>1, <3>1
  <2>. QED
    BY <1>8, <1>9, <2>1, <2>3, <2>4
<1>11. Live(f, C) /\ Live(h, C)
  BY <1>10 DEF Live, h
<1>12. Alike(f, h, C)
  BY <1>7, <1>8, <1>9, <1>10, <1>11 DEF Alike, f, h
<1>. QED
  BY <1>5, <1>12 DEF f, h

\* A record and the one that undoes it are about the same buffers
LEMMA UndoTouches ==
    ASSUME NEW e \in Editor, NEW u, Fits(e, u)
    PROVE  LET v == UndoOf(e, u)
           IN  /\ v.op = u.op /\ v.buffer \in {u.buffer, IF u.op = "move" THEN u.dbuffer ELSE u.buffer}
               /\ \A c \in Nat : Touches(v, c) <=> Touches(u, c)
               /\ u.op = "rename" => v.buffer = u.buffer /\ v.name = NameOf(e, u.buffer)
<1>1. u \in Undo /\ u.op \in {"replace", "rename", "move"}
  BY DEF Fits, Undo
<1>2. CASE u.op = "replace"
  BY <1>2 DEF UndoOf, UndoOfReplace, Touches
<1>3. CASE u.op = "rename"
  BY <1>3 DEF UndoOf, UndoOfRename, Touches
<1>4. CASE u.op = "move"
  <2>1. /\ UndoOf(e, u).op = "move" /\ UndoOf(e, u).buffer = u.dbuffer
        /\ UndoOf(e, u).dbuffer = u.buffer
    BY <1>4 DEF UndoOf, UndoOfMove, From, To
  <2>. QED
    BY <1>4, <2>1 DEF Touches
<1>. QED
  BY <1>1, <1>2, <1>3, <1>4

\* The record of a round takes its editor back, as far as records of buffers that
\* the round has not closed can tell
LEMMA AlikeUndone ==
    ASSUME NEW e \in Editor, NEW u, Listed(e), Fits(e, u), NEW B,
           Live(e, B), Live(Applied(e, u), B)
    PROVE  LET f == Applied(e, u)
               v == UndoOf(e, u)
           IN  /\ f \in Editor /\ Listed(f) /\ Exact(f, v)
               /\ Alike(Applied(f, v), e, B)
<1>. DEFINE b == u.buffer
            f == Applied(e, u)
            v == UndoOf(e, u)
            g == Applied(f, v)
            N == Len(e.buffers)
<1>1. /\ f \in Editor /\ Listed(f) /\ Exact(f, v)
      /\ g \in Editor /\ Listed(g) /\ Contents(g) = Contents(e)
  BY EditIsUndone
<1>2. /\ Len(f.buffers) \in Nat /\ Len(f.buffers) >= N
      /\ \A c \in 1..N :
            /\ NameOf(f, c) = IF u.op = "rename" /\ c = b THEN u.name ELSE NameOf(e, c)
            /\ f.buffers[c].open <=>
                  e.buffers[c].open /\ ~(u.op = "rename" /\ c = BufferOf(e, u.name))
      /\ u.op = "rename" => BufferOf(f, NameOf(e, b)) = N + 1
  BY AppliedBuffers
<1>3. /\ v.op = u.op /\ (u.op = "rename" => v.buffer = b /\ v.name = NameOf(e, b))
  BY UndoTouches
<1>4. Fits(f, v)
  BY <1>1 DEF Exact
<1>. HIDE DEF f, v
<1>5. /\ Len(g.buffers) \in Nat /\ Len(g.buffers) >= Len(f.buffers)
      /\ \A c \in 1..Len(f.buffers) :
            /\ NameOf(g, c) = IF v.op = "rename" /\ c = v.buffer THEN v.name ELSE NameOf(f, c)
            /\ g.buffers[c].open <=>
                  f.buffers[c].open /\ ~(v.op = "rename" /\ c = BufferOf(f, v.name))
  BY <1>1, <1>4, AppliedBuffers
<1>. HIDE DEF g
<1>6. N \in Nat
  BY DEF Editor
<1>7. ASSUME NEW c \in B
      PROVE  c \in 1..Len(g.buffers) /\ g.buffers[c].open /\ NameOf(g, c) = NameOf(e, c)
  <2>1. c \in 1..N /\ e.buffers[c].open /\ f.buffers[c].open
    BY DEF Live, f
  <2>2. c \in 1..Len(f.buffers) /\ c \in 1..Len(g.buffers) /\ c # N + 1
    BY <1>2, <1>5, <1>6, <2>1
  <2>3. v.op = "rename" => c # BufferOf(f, v.name)
    BY <1>2, <1>3, <2>2
  <2>4. g.buffers[c].open
    BY <1>5, <2>1, <2>2, <2>3
  <2>5. NameOf(g, c) = NameOf(e, c)
    BY <1>2, <1>3, <1>5, <2>1, <2>2
  <2>. QED
    BY <2>2, <2>4, <2>5
<1>8. Alike(g, e, B)
  BY <1>1, <1>7 DEF Alike, Live
<1>. QED
  BY <1>1, <1>8 DEF f, v, g

-----------------------------------------------------------------------------
(* Records before and after one another                                    *)

LEMMA RecordBefore ==
    ASSUME NEW us \in Seq(Undo), NEW v \in Undo
    PROVE  /\ <<v>> \o us \in Seq(Undo) /\ Len(<<v>> \o us) = Len(us) + 1
           /\ (<<v>> \o us)[1] = v
           /\ \A i \in 1..Len(us) : (<<v>> \o us)[i + 1] = us[i]
           /\ \A i \in 2..(Len(us) + 1) : (<<v>> \o us)[i] = us[i - 1]
OBVIOUS

LEMMA RecordsLeft ==
    ASSUME NEW us \in Seq(Undo), us # <<>>
    PROVE  /\ Head(us) = us[1] /\ us[1] \in Undo /\ Len(us) \in Nat /\ Len(us) >= 1
           /\ Tail(us) \in Seq(Undo) /\ Len(Tail(us)) = Len(us) - 1
           /\ \A i \in 1..(Len(us) - 1) : Tail(us)[i] = us[i + 1]
OBVIOUS

LEMMA TouchedBefore ==
    ASSUME NEW us \in Seq(Undo), NEW v \in Undo
    PROVE  /\ \A i \in 0..Len(us) : TouchedAfter(<<v>> \o us, i + 1) = TouchedAfter(us, i)
           /\ TouchedAfter(<<v>> \o us, 0) = {c \in Nat : Touches(v, c)} \cup TouchedAfter(us, 0)
<1>. DEFINE vs == <<v>> \o us
            N == Len(us)
<1>1. N \in Nat
  OBVIOUS
<1>2. /\ Len(vs) = N + 1 /\ vs[1] = v
      /\ \A i \in 1..N : vs[i + 1] = us[i]
      /\ \A i \in 2..(N + 1) : vs[i] = us[i - 1]
  BY RecordBefore
<1>. HIDE DEF vs, Touches
<1>3. ASSUME NEW i \in 0..N
      PROVE  TouchedAfter(vs, i + 1) = TouchedAfter(us, i)
  <2>1. ASSUME NEW c \in Nat, NEW j \in (i + 1 + 1)..Len(vs), Touches(vs[j], c)
        PROVE  \E k \in (i + 1)..N : Touches(us[k], c)
    <3>1. j - 1 \in (i + 1)..N /\ vs[j] = us[j - 1]
      BY <1>1, <1>2
    <3>. QED
      BY <2>1, <3>1
  <2>2. ASSUME NEW c \in Nat, NEW k \in (i + 1)..N, Touches(us[k], c)
        PROVE  \E j \in (i + 1 + 1)..Len(vs) : Touches(vs[j], c)
    <3>1. k + 1 \in (i + 1 + 1)..Len(vs) /\ vs[k + 1] = us[k]
      BY <1>1, <1>2
    <3>. QED
      BY <2>2, <3>1
  <2>. QED
    BY <2>1, <2>2 DEF TouchedAfter
<1>4. TouchedAfter(vs, 0) = {c \in Nat : Touches(v, c)} \cup TouchedAfter(us, 0)
  <2>1. ASSUME NEW c \in Nat, NEW j \in (0 + 1)..Len(vs), Touches(vs[j], c)
        PROVE  Touches(v, c) \/ \E k \in (0 + 1)..N : Touches(us[k], c)
    <3>1. CASE j = 1
      BY <1>2, <2>1, <3>1
    <3>2. CASE j # 1
      <4>1. j - 1 \in (0 + 1)..N /\ vs[j] = us[j - 1]
        BY <1>1, <1>2, <3>2
      <4>. QED
        BY <2>1, <4>1
    <3>. QED
      BY <3>1, <3>2
  <2>2. ASSUME NEW c \in Nat, Touches(v, c)
        PROVE  \E j \in (0 + 1)..Len(vs) : Touches(vs[j], c)
    <3>1. 1 \in (0 + 1)..Len(vs)
      BY <1>1, <1>2
    <3>. QED
      BY <1>2, <2>2, <3>1
  <2>3. ASSUME NEW c \in Nat, NEW k \in (0 + 1)..N, Touches(us[k], c)
        PROVE  \E j \in (0 + 1)..Len(vs) : Touches(vs[j], c)
    <3>1. k + 1 \in (0 + 1)..Len(vs) /\ vs[k + 1] = us[k]
      BY <1>1, <1>2
    <3>. QED
      BY <2>3, <3>1
  <2>. QED
    BY <2>1, <2>2, <2>3 DEF TouchedAfter
<1>. QED
  BY <1>3, <1>4 DEF vs

LEMMA TouchedLeft ==
    ASSUME NEW us \in Seq(Undo), us # <<>>
    PROVE  /\ \A i \in 0..(Len(us) - 1) : TouchedAfter(Tail(us), i) = TouchedAfter(us, i + 1)
           /\ \A c \in Nat : Touches(us[1], c) => c \in TouchedAfter(us, 0)
           /\ TouchedAfter(us, 1) \subseteq TouchedAfter(us, 0)
<1>. DEFINE ws == Tail(us)
            N == Len(us)
<1>1. /\ N \in Nat /\ N >= 1 /\ Len(ws) = N - 1
      /\ \A i \in 1..(N - 1) : ws[i] = us[i + 1]
  BY RecordsLeft
<1>. HIDE DEF ws, Touches
<1>2. ASSUME NEW i \in 0..(N - 1)
      PROVE  TouchedAfter(ws, i) = TouchedAfter(us, i + 1)
  <2>1. ASSUME NEW c \in Nat, NEW j \in (i + 1)..Len(ws), Touches(ws[j], c)
        PROVE  \E k \in (i + 1 + 1)..N : Touches(us[k], c)
    <3>1. j + 1 \in (i + 1 + 1)..N /\ ws[j] = us[j + 1]
      BY <1>1
    <3>. QED
      BY <2>1, <3>1
  <2>2. ASSUME NEW c \in Nat, NEW k \in (i + 1 + 1)..N, Touches(us[k], c)
        PROVE  \E j \in (i + 1)..Len(ws) : Touches(ws[j], c)
    <3>1. k - 1 \in (i + 1)..Len(ws) /\ k - 1 \in 1..(N - 1) /\ (k - 1) + 1 = k
      BY <1>1
    <3>2. ws[k - 1] = us[k]
      BY <1>1, <3>1
    <3>. QED
      BY <2>2, <3>1, <3>2
  <2>. QED
    BY <2>1, <2>2 DEF TouchedAfter
<1>3. ASSUME NEW c \in Nat, Touches(us[1], c)
      PROVE  c \in TouchedAfter(us, 0)
  <2>1. 1 \in (0 + 1)..N
    BY <1>1
  <2>. QED
    BY <1>3, <2>1 DEF TouchedAfter
<1>4. TouchedAfter(us, 1) \subseteq TouchedAfter(us, 0)
  <2>1. \A j \in (1 + 1)..N : j \in (0 + 1)..N
    BY <1>1
  <2>. QED
    BY <2>1 DEF TouchedAfter
<1>. QED
  BY <1>2, <1>3, <1>4 DEF ws

-----------------------------------------------------------------------------
(* What a trail leads to                                                   *)

\* Without records there is nowhere to go
LEMMA NothingLeft ==
    ASSUME NEW e, NEW texts
    PROVE  LeadsTo(<<>>, e, texts) <=> e \in Editor /\ Listed(e) /\ Contents(e) = texts
<1>1. <<>> \in Seq(Undo) /\ Len(<<>>) = 0 /\ TouchedAfter(<<>>, 0) = {}
  <2>1. Len(<<>>) = 0
    OBVIOUS
  <2>2. \A j \in (0 + 1)..0 : FALSE
    OBVIOUS
  <2>. QED
    BY <2>1, <2>2 DEF TouchedAfter
<1>2. ASSUME LeadsTo(<<>>, e, texts)
      PROVE  e \in Editor /\ Listed(e) /\ Contents(e) = texts
  <2>1. PICK tr : Trail(tr, <<>>, e) /\ Contents(tr[Len(<<>>)]) = texts
    BY <1>2 DEF LeadsTo
  <2>2. Alike(e, tr[0], {}) /\ Contents(tr[0]) = texts
    BY <1>1, <2>1 DEF Trail
  <2>. QED
    BY <2>2 DEF Alike
<1>3. ASSUME e \in Editor, Listed(e), Contents(e) = texts
      PROVE  LeadsTo(<<>>, e, texts)
  <2>. DEFINE tr == [i \in 0..0 |-> e]
  <2>1. tr \in [0..0 -> Editor] /\ tr[0] = e
    BY <1>3
  <2>2. Alike(e, e, {})
    BY <1>3 DEF Alike, Live
  <2>. HIDE DEF tr
  <2>3. \A i \in 1..Len(<<>>) : FALSE
    BY <1>1
  <2>4. Trail(tr, <<>>, e)
    BY <1>1, <2>1, <2>2, <2>3 DEF Trail
  <2>. QED
    BY <1>1, <1>3, <2>1, <2>4 DEF LeadsTo
<1>. QED
  BY <1>2, <1>3

\* The next record can be applied, exactly, and the others lead on from there
LEMMA RecordApplied ==
    ASSUME NEW us \in Seq(Undo), us # <<>>, NEW e, NEW texts, LeadsTo(us, e, texts)
    PROVE  /\ e \in Editor /\ Listed(e) /\ Exact(e, Head(us))
           /\ Live(e, TouchedAfter(us, 0))
           /\ Live(Applied(e, Head(us)), TouchedAfter(us, 1))
           /\ LeadsTo(Tail(us), Applied(e, Head(us)), texts)
<1>. DEFINE u == us[1]
            ws == Tail(us)
            N == Len(us)
            f == Applied(e, u)
<1>1. PICK tr : Trail(tr, us, e) /\ Contents(tr[N]) = texts
  BY DEF LeadsTo
<1>2. /\ Head(us) = u /\ u \in Undo /\ N \in Nat /\ N >= 1
      /\ ws \in Seq(Undo) /\ Len(ws) = N - 1 /\ \A i \in 1..(N - 1) : ws[i] = us[i + 1]
  BY RecordsLeft
<1>3. /\ \A i \in 0..(N - 1) : TouchedAfter(ws, i) = TouchedAfter(us, i + 1)
      /\ \A c \in Nat : Touches(u, c) => c \in TouchedAfter(us, 0)
      /\ TouchedAfter(us, 1) \subseteq TouchedAfter(us, 0)
  BY TouchedLeft
<1>4. /\ tr \in [0..N -> Editor] /\ Alike(e, tr[0], TouchedAfter(us, 0))
      /\ \A i \in 1..N : /\ Exact(tr[i - 1], us[i])
                         /\ Alike(Applied(tr[i - 1], us[i]), tr[i], TouchedAfter(us, i))
  BY <1>1 DEF Trail
<1>. HIDE DEF u, ws, N
<1>5. Exact(tr[0], u) /\ Alike(Applied(tr[0], u), tr[1], TouchedAfter(us, 1))
  <2>1. 1 \in 1..N /\ 1 - 1 = 0
    BY <1>2
  <2>. QED
    BY <1>4, <2>1 DEF u
<1>6. Live(Applied(tr[0], u), TouchedAfter(us, 1))
  BY <1>5 DEF Alike
<1>7. Exact(e, u) /\ Alike(f, Applied(tr[0], u), TouchedAfter(us, 1))
  BY <1>3, <1>4, <1>5, <1>6, AlikeApplied
<1>8. Alike(f, tr[1], TouchedAfter(us, 1))
  BY <1>5, <1>7, AlikeTransitive
<1>. HIDE DEF f
<1>. DEFINE ts == [i \in 0..(N - 1) |-> tr[i + 1]]
<1>9. ts \in [0..Len(ws) -> Editor]
  BY <1>2, <1>4
<1>10. \A i \in 0..(N - 1) : ts[i] = tr[i + 1]
  OBVIOUS
<1>. HIDE DEF ts
<1>11. Alike(f, ts[0], TouchedAfter(ws, 0))
  <2>1. 0 \in 0..(N - 1) /\ 0 + 1 = 1
    BY <1>2
  <2>. QED
    BY <1>3, <1>8, <1>10, <2>1
<1>12. ASSUME NEW i \in 1..Len(ws)
       PROVE  /\ Exact(ts[i - 1], ws[i])
              /\ Alike(Applied(ts[i - 1], ws[i]), ts[i], TouchedAfter(ws, i))
  <2>1. i \in 1..(N - 1) /\ i - 1 \in 0..(N - 1) /\ i \in 0..(N - 1) /\ i + 1 \in 1..N
        /\ (i - 1) + 1 = i /\ (i + 1) - 1 = i
    BY <1>2
  <2>2. ts[i - 1] = tr[i] /\ ts[i] = tr[i + 1] /\ ws[i] = us[i + 1]
        /\ TouchedAfter(ws, i) = TouchedAfter(us, i + 1)
    BY <1>2, <1>3, <1>10, <2>1
  <2>3. /\ Exact(tr[i], us[i + 1])
        /\ Alike(Applied(tr[i], us[i + 1]), tr[i + 1], TouchedAfter(us, i + 1))
    BY <1>4, <2>1
  <2>. QED
    BY <2>2, <2>3
<1>13. Trail(ts, ws, f)
  BY <1>9, <1>11, <1>12 DEF Trail
<1>14. Contents(ts[Len(ws)]) = texts
  <2>1. N - 1 \in 0..(N - 1) /\ (N - 1) + 1 = N
    BY <1>2
  <2>. QED
    BY <1>1, <1>2, <1>10, <2>1 DEF N
<1>15. LeadsTo(ws, f, texts)
  BY <1>13, <1>14 DEF LeadsTo
<1>16. e \in Editor /\ Listed(e) /\ Live(e, TouchedAfter(us, 0)) /\ Live(f, TouchedAfter(us, 1))
  BY <1>4, <1>8 DEF Alike
<1>. QED
  BY <1>2, <1>7, <1>15, <1>16 DEF f, ws

\* A record that takes f back to e comes before the records of e
LEMMA RecordAdded ==
    ASSUME NEW us \in Seq(Undo), NEW e, NEW texts, LeadsTo(us, e, texts),
           NEW f \in Editor, NEW v, Listed(f), Exact(f, v),
           Live(f, TouchedAfter(us, 0)), Alike(Applied(f, v), e, TouchedAfter(us, 0))
    PROVE  <<v>> \o us \in Seq(Undo) /\ LeadsTo(<<v>> \o us, f, texts)
<1>. DEFINE vs == <<v>> \o us
            N == Len(us)
<1>1. PICK tr : Trail(tr, us, e) /\ Contents(tr[N]) = texts
  BY DEF LeadsTo
<1>2. v \in Undo /\ Fits(f, v)
  BY DEF Exact, Fits
<1>3. /\ N \in Nat /\ vs \in Seq(Undo) /\ Len(vs) = N + 1 /\ vs[1] = v
      /\ \A i \in 2..(N + 1) : vs[i] = us[i - 1]
  BY <1>2, RecordBefore
<1>4. /\ \A i \in 0..N : TouchedAfter(vs, i + 1) = TouchedAfter(us, i)
      /\ TouchedAfter(vs, 0) = {c \in Nat : Touches(v, c)} \cup TouchedAfter(us, 0)
  BY <1>2, TouchedBefore
<1>5. /\ tr \in [0..N -> Editor] /\ Alike(e, tr[0], TouchedAfter(us, 0))
      /\ \A i \in 1..N : /\ Exact(tr[i - 1], us[i])
                         /\ Alike(Applied(tr[i - 1], us[i]), tr[i], TouchedAfter(us, i))
  BY <1>1 DEF Trail
<1>. HIDE DEF vs, N
<1>6. Alike(Applied(f, v), tr[0], TouchedAfter(us, 0))
  BY <1>5, AlikeTransitive
<1>7. Alike(f, f, TouchedAfter(vs, 0))
  <2>1. ASSUME NEW c \in Nat, Touches(v, c)
        PROVE  c \in 1..Len(f.buffers) /\ f.buffers[c].open
    <3>1. c = v.buffer \/ (v.op = "move" /\ c = v.dbuffer)
      BY <2>1 DEF Touches
    <3>2. v.op = "move" => v.dbuffer \in 1..Len(f.buffers)
      BY <1>2 DEF Fits, Block, To
    <3>. QED
      BY <1>2, <3>1, <3>2 DEF Fits
  <2>2. Live(f, TouchedAfter(vs, 0))
    BY <1>4, <2>1 DEF Live
  <2>. QED
    BY <2>2 DEF Alike
<1>. DEFINE ts == [i \in 0..(N + 1) |-> IF i = 0 THEN f ELSE tr[i - 1]]
<1>8. ts \in [0..Len(vs) -> Editor]
  <2>1. \A i \in 0..(N + 1) : i # 0 => i - 1 \in 0..N
    BY <1>3
  <2>2. \A i \in 0..(N + 1) : (IF i = 0 THEN f ELSE tr[i - 1]) \in Editor
    BY <1>5, <2>1
  <2>. QED
    BY <1>3, <2>2
<1>9. ts[0] = f /\ \A i \in 1..(N + 1) : ts[i] = tr[i - 1]
  BY <1>3
<1>. HIDE DEF ts
<1>10. ASSUME NEW i \in 1..Len(vs)
       PROVE  /\ Exact(ts[i - 1], vs[i])
              /\ Alike(Applied(ts[i - 1], vs[i]), ts[i], TouchedAfter(vs, i))
  <2>1. CASE i = 1
    <3>1. 1 - 1 = 0 /\ 0 \in 0..N /\ 0 + 1 = 1 /\ 1 \in 1..(N + 1)
      BY <1>3
    <3>2. ts[i - 1] = f /\ vs[i] = v /\ ts[i] = tr[0] /\ TouchedAfter(vs, i) = TouchedAfter(us, 0)
      BY <1>3, <1>4, <1>9, <2>1, <3>1
    <3>. QED
      BY <1>6, <3>2
  <2>2. CASE i # 1
    <3>. DEFINE k == i - 1
    <3>1. k \in 1..N /\ i \in 2..(N + 1) /\ k \in 0..N /\ k \in 1..(N + 1) /\ i \in 1..(N + 1)
          /\ k + 1 = i
      BY <1>3, <2>2
    <3>2. ts[i - 1] = tr[k - 1] /\ vs[i] = us[k] /\ ts[i] = tr[k] /\ TouchedAfter(vs, i) = TouchedAfter(us, k)
      BY <1>3, <1>4, <1>9, <3>1
    <3>. HIDE DEF k
    <3>. QED
      BY <1>5, <3>1, <3>2
  <2>. QED
    BY <2>1, <2>2
<1>11. Trail(ts, vs, f)
  <2>1. Alike(f, ts[0], TouchedAfter(vs, 0))
    BY <1>7, <1>9
  <2>. QED
    BY <1>8, <1>10, <2>1 DEF Trail
<1>12. Contents(ts[Len(vs)]) = texts
  <2>1. N + 1 \in 1..(N + 1) /\ (N + 1) - 1 = N
    BY <1>3
  <2>. QED
    BY <1>1, <1>3, <1>9, <2>1 DEF N
<1>13. LeadsTo(vs, f, texts)
  BY <1>11, <1>12 DEF LeadsTo
<1>. QED
  BY <1>3, <1>13 DEF vs

\* The buffers of all records are there
LEMMA TrailLives ==
    ASSUME NEW us, NEW e, NEW texts, LeadsTo(us, e, texts)
    PROVE  e \in Editor /\ Listed(e) /\ Live(e, TouchedAfter(us, 0))
BY DEF LeadsTo, Trail, Alike

-----------------------------------------------------------------------------
(* Buffers that count as unmodified                                        *)

\* Such a buffer of f is one of e, and as it was
KeepsUnmodified(f, e) ==
    \A c \in 1..Len(f.buffers) : f.buffers[c].open /\ ~f.buffers[c].modified =>
        c \in 1..Len(e.buffers) /\ f.buffers[c] = e.buffers[c]

\* and has the text of its file
AsOpened(e) ==
    \A b \in 1..Len(e.buffers) : e.buffers[b].open /\ ~e.buffers[b].modified =>
        b <= Len(Opened) /\ NameOf(e, b) = Opened[b].fileName /\ TextOf(e, b) = Opened[b].text

LEMMA AsOpenedKept ==
    ASSUME NEW e, NEW f, AsOpened(e), KeepsUnmodified(f, e)
    PROVE  AsOpened(f)
BY DEF AsOpened, KeepsUnmodified, NameOf, TextOf

\* A replacement marks its buffer, whatever is in the others
Markable(e) ==
    /\ e \in [buffers : {e.buffers}, table : {e.table}, markers : {e.markers}]
    /\ \A c \in DOMAIN e.buffers : "modified" \in DOMAIN e.buffers[c]

MarksOne(f, e, b) ==
    /\ Markable(f) /\ DOMAIN f.buffers = DOMAIN e.buffers
    /\ f.buffers[b].modified
    /\ \A c \in DOMAIN e.buffers : c # b => f.buffers[c] = e.buffers[c]

LEMMA ReplacedMarks ==
    ASSUME NEW e, Markable(e), NEW b \in DOMAIN e.buffers, NEW o, NEW size, NEW s
    PROVE  MarksOne(Replaced(e, b, o, size, s), e, b)
<1>. DEFINE x == e.buffers
            y == e.table
            new == Cut(TextOf(e, b), o, Clamped(TextOf(e, b), o, size), s)
            record == [x[b] EXCEPT !.text = new, !.modified = TRUE]
            placed == [m \in Marker |->
                          IF e.markers[m].buffer = b
                          THEN [e.markers[m] EXCEPT
                                   !.offset = Shift(@, o, Clamped(TextOf(e, b), o, size), Len(s))]
                          ELSE e.markers[m]]
            w == [x EXCEPT ![b] = record]
            f == Replaced(e, b, o, size, s)
<1>1. /\ e \in [buffers : {x}, table : {y}, markers : {e.markers}]
      /\ \A c \in DOMAIN x : "modified" \in DOMAIN x[c]
      /\ e.buffers = x /\ b \in DOMAIN x
  BY DEF Markable
<1>2. f = [e EXCEPT !.buffers = [e.buffers EXCEPT ![b] = [e.buffers[b] EXCEPT !.text = new, !.modified = TRUE]],
                    !.markers = placed]
  BY DEF Replaced, TextOf
<1>. HIDE DEF new, placed, f, x, y
<1>3. f \in [buffers : {w}, table : {y}, markers : {placed}]
  <2>1. f = [e EXCEPT !.buffers = w, !.markers = placed]
    BY <1>1, <1>2
  <2>. HIDE DEF w
  <2>. QED
    BY <1>1, <2>1
<1>4. "modified" \in DOMAIN record /\ record.modified = TRUE
  BY <1>1
<1>. HIDE DEF record
<1>5. DOMAIN w = DOMAIN x /\ w[b] = record /\ \A c \in DOMAIN x : c # b => w[c] = x[c]
  BY <1>1
<1>. HIDE DEF w
<1>6. f.buffers = w /\ f.table = y /\ f.markers = placed
  BY <1>3
<1>7. \A c \in DOMAIN w : "modified" \in DOMAIN w[c]
  BY <1>1, <1>4, <1>5
<1>8. Markable(f)
  BY <1>3, <1>6, <1>7 DEF Markable
<1>. QED
  BY <1>4, <1>5, <1>6, <1>8 DEF f, x, MarksOne

LEMMA EditorMarkable ==
    ASSUME NEW e \in Editor
    PROVE  Markable(e) /\ DOMAIN e.buffers = 1..Len(e.buffers)
<1>1. e \in [buffers : {e.buffers}, table : {e.table}, markers : {e.markers}]
  BY DEF Editor
<1>2. e.buffers \in Seq(BufferRecord)
  BY DEF Editor
<1>3. \A c \in DOMAIN e.buffers : e.buffers[c] \in BufferRecord
  BY <1>2
<1>4. \A c \in DOMAIN e.buffers : "modified" \in DOMAIN e.buffers[c]
  BY <1>3 DEF BufferRecord
<1>. QED
  BY <1>1, <1>2, <1>4 DEF Markable

LEMMA ReplacedKeeps ==
    ASSUME NEW e \in Editor, NEW b \in 1..Len(e.buffers),
           NEW o \in 0..Len(TextOf(e, b)), NEW size \in Nat, NEW s \in Seq(Char)
    PROVE  KeepsUnmodified(Replaced(e, b, o, size, s), e)
<1>. DEFINE f == Replaced(e, b, o, size, s)
<1>2. Markable(e) /\ DOMAIN e.buffers = 1..Len(e.buffers)
  BY EditorMarkable
<1>3. f.buffers[b].modified /\ \A c \in DOMAIN e.buffers : c # b => f.buffers[c] = e.buffers[c]
  <2>1. b \in DOMAIN e.buffers
    BY <1>2
  <2>2. MarksOne(f, e, b)
    BY <1>2, <2>1, ReplacedMarks
  <2>. QED
    BY <2>2 DEF MarksOne
<1>4. Len(f.buffers) = Len(e.buffers)
  BY ReplaceIsUndone DEF SameBuffers
<1>. HIDE DEF f
<1>5. KeepsUnmodified(f, e)
  BY <1>2, <1>3, <1>4 DEF KeepsUnmodified
<1>. QED
  BY <1>5 DEF f

\* A move marks both buffers
LEMMA MovedKeeps ==
    ASSUME NEW e \in Editor, NEW p, NEW q, NEW k, Block(e, p, q, k)
    PROVE  KeepsUnmodified(Moved(e, p, q, k), e)
<1>. DEFINE block == SubSeq(TextOf(e, p.buffer), p.offset + 1, p.offset + k)
            from == Displaced(p, q, k)
            copied == Replaced(e, q.buffer, q.offset, 0, block)
            placed == [m \in Marker |->
                          IF InBlock(copied.markers[m], from, k)
                          THEN [buffer |-> q.buffer,
                                offset |-> q.offset + copied.markers[m].offset - from.offset]
                          ELSE copied.markers[m]]
            taken == [copied EXCEPT !.markers = placed]
            f == Moved(e, p, q, k)
<1>1. p.buffer \in 1..Len(e.buffers) /\ q.buffer \in 1..Len(e.buffers)
  BY DEF Block
<1>2. from.buffer = p.buffer
  <2>1. CASE p.buffer = q.buffer
    <3>1. from = [p EXCEPT !.offset = Shift(p.offset, q.offset, 0, k)]
      BY <2>1 DEF Displaced
    <3>. QED
      BY <3>1 DEF Block, Place
  <2>2. CASE p.buffer # q.buffer
    BY <2>2 DEF Displaced
  <2>. QED
    BY <2>1, <2>2
<1>3. f = Replaced(taken, from.buffer, from.offset, k, <<>>)
  BY DEF Moved
<1>4. Len(f.buffers) = Len(e.buffers)
  BY MoveIsUndone DEF SameBuffers
<1>. HIDE DEF f, from, block
<1>6. Markable(e) /\ DOMAIN e.buffers = 1..Len(e.buffers)
  BY EditorMarkable
<1>7. /\ Markable(copied) /\ DOMAIN copied.buffers = DOMAIN e.buffers
      /\ copied.buffers[q.buffer].modified
      /\ \A c \in DOMAIN e.buffers : c # q.buffer => copied.buffers[c] = e.buffers[c]
  <2>1. q.buffer \in DOMAIN e.buffers
    BY <1>1, <1>6
  <2>2. MarksOne(copied, e, q.buffer)
    BY <1>6, <2>1, ReplacedMarks
  <2>. QED
    BY <2>2 DEF MarksOne
<1>. HIDE DEF copied, placed
<1>8. Markable(taken) /\ taken.buffers = copied.buffers
  BY <1>7 DEF Markable
<1>. HIDE DEF taken
<1>9. /\ f.buffers[p.buffer].modified
      /\ \A c \in DOMAIN e.buffers : c # p.buffer => f.buffers[c] = copied.buffers[c]
  <2>1. p.buffer \in DOMAIN taken.buffers
    BY <1>1, <1>6, <1>7, <1>8
  <2>. QED
    BY <1>2, <1>3, <1>7, <1>8, <2>1, ReplacedMarks DEF MarksOne
<1>10. ASSUME NEW c \in 1..Len(f.buffers), f.buffers[c].open, ~f.buffers[c].modified
       PROVE  c \in 1..Len(e.buffers) /\ f.buffers[c] = e.buffers[c]
  <2>1. c \in DOMAIN e.buffers /\ c # p.buffer
    BY <1>4, <1>6, <1>9, <1>10
  <2>2. f.buffers[c] = copied.buffers[c]
    BY <1>9, <2>1
  <2>3. c # q.buffer
    BY <1>7, <1>10, <2>2
  <2>. QED
    BY <1>6, <1>7, <2>1, <2>2, <2>3
<1>11. KeepsUnmodified(f, e)
  BY <1>10 DEF KeepsUnmodified
<1>. QED
  BY <1>11 DEF f

\* A buffer that is not freed is as it was
LEMMA FreedOthers ==
    ASSUME NEW e \in Editor, NEW n \in Name, BufferOf(e, n) \in 0..Len(e.buffers)
    PROVE  \A c \in 1..Len(e.buffers) :
              Freed(e, n).buffers[c].open => Freed(e, n).buffers[c] = e.buffers[c]
<1>. DEFINE other == BufferOf(e, n)
            f == Freed(e, n)
<1>1. Len(e.buffers) \in Nat /\ e.buffers \in Seq(BufferRecord)
  BY DEF Editor
<1>2. CASE other = 0
  BY <1>2 DEF Freed
<1>3. CASE other # 0
  <2>. DEFINE r == [e.buffers[other] EXCEPT !.open = FALSE]
              g == [e EXCEPT !.buffers[other] = r]
  <2>1. other \in 1..Len(e.buffers) /\ e.buffers[other] \in BufferRecord
    BY <1>1, <1>3, BufferType
  <2>2. r \in BufferRecord /\ r.open = FALSE
    BY <2>1 DEF BufferRecord
  <2>3. f = [g EXCEPT !.table[n] = 0]
    BY <1>3 DEF Freed
  <2>. HIDE DEF r, f
  <2>4. /\ g \in Editor
        /\ \A c \in 1..Len(e.buffers) : g.buffers[c] = IF c = other THEN r ELSE e.buffers[c]
    BY <2>1, <2>2, BufferProperties
  <2>. HIDE DEF g
  <2>5. f.buffers = g.buffers
    <3>1. \A z \in Nat : LET h == [g EXCEPT !.table[n] = z] IN h.buffers = g.buffers
      BY <2>4, TableProperties
    <3>. QED
      BY <2>3, <3>1
  <2>6. \A c \in 1..Len(e.buffers) : f.buffers[c].open => f.buffers[c] = e.buffers[c]
    BY <2>2, <2>4, <2>5
  <2>. QED
    BY <2>6 DEF f
<1>. QED
  BY <1>2, <1>3

\* A rename marks the buffer it renames and the empty one it makes
LEMMA RenamedKeeps ==
    ASSUME NEW e \in Editor, NEW b \in 1..Len(e.buffers), NEW n \in Name,
           Listed(e), e.buffers[b].open, n # NameOf(e, b)
    PROVE  KeepsUnmodified(Renamed(e, b, n), e)
<1>. DEFINE old == NameOf(e, b)
            N == Len(e.buffers)
            e1 == [e EXCEPT !.table[old] = 0]
            e2 == Freed(e1, n)
            r == [e2.buffers[b] EXCEPT !.fileName = n, !.modified = TRUE]
            e3 == [e2 EXCEPT !.buffers[b] = r]
            e4 == [e3 EXCEPT !.table[n] = b]
            f == Renamed(e, b, n)
<1>1. N \in Nat /\ b \in Nat /\ old \in Name
  BY BufferType
<1>2. f = Created(e4, old, TRUE)
  BY DEF Renamed
<1>3. BufferOf(e, n) \in 0..N
  BY DEF Listed
<1>. HIDE DEF old, f
<1>4. /\ e1 \in Editor /\ e1.buffers = e.buffers
      /\ \A y \in Name : BufferOf(e1, y) = IF y = old THEN 0 ELSE BufferOf(e, y)
  <2>1. \A z \in Nat : LET h == [e EXCEPT !.table[old] = z]
                       IN  /\ h \in Editor /\ h.buffers = e.buffers /\ h.markers = e.markers
                           /\ \A y \in Name : BufferOf(h, y) = IF y = old THEN z ELSE BufferOf(e, y)
    BY <1>1, TableProperties
  <2>. QED
    BY <2>1
<1>. HIDE DEF e1
<1>5. BufferOf(e1, n) \in 0..Len(e1.buffers)
  BY <1>1, <1>3, <1>4
<1>6. /\ e2 \in Editor /\ Len(e2.buffers) = N /\ e2.buffers[b] \in BufferRecord
  BY <1>4, <1>5, FreedProperties
<1>7. \A c \in 1..N : e2.buffers[c].open => e2.buffers[c] = e.buffers[c]
  BY <1>4, <1>5, FreedOthers
<1>. HIDE DEF e2
<1>8. r \in BufferRecord /\ r.modified = TRUE
  BY <1>6 DEF BufferRecord
<1>. HIDE DEF r
<1>9. /\ e3 \in Editor /\ Len(e3.buffers) = N
      /\ \A c \in 1..N : e3.buffers[c] = IF c = b THEN r ELSE e2.buffers[c]
  BY <1>6, <1>8, BufferProperties
<1>. HIDE DEF e3
<1>10. e4 \in Editor /\ e4.buffers = e3.buffers
  <2>1. \A z \in Nat : LET h == [e3 EXCEPT !.table[n] = z]
                       IN  h \in Editor /\ h.buffers = e3.buffers
    BY <1>9, TableProperties
  <2>2. b \in Nat
    BY <1>1
  <2>. QED
    BY <2>1, <2>2
<1>. HIDE DEF e4
<1>. DEFINE last == [fileName |-> old, text |-> <<>>, modified |-> TRUE, open |-> TRUE]
<1>11. /\ Len(f.buffers) = N + 1
       /\ \A c \in 1..(N + 1) : f.buffers[c] = IF c = N + 1 THEN last ELSE e4.buffers[c]
  <2>1. IsCreated(f, e4, old, TRUE)
    BY <1>1, <1>2, <1>10, CreatedProperties
  <2>. QED
    BY <1>9, <1>10, <2>1 DEF IsCreated
<1>12. last.modified = TRUE
  OBVIOUS
<1>. HIDE DEF last
<1>13. ASSUME NEW c \in 1..Len(f.buffers), f.buffers[c].open, ~f.buffers[c].modified
       PROVE  c \in 1..Len(e.buffers) /\ f.buffers[c] = e.buffers[c]
  <2>1. c \in 1..(N + 1)
    BY <1>11
  <2>2. c # N + 1
    BY <1>11, <1>12, <1>13, <2>1
  <2>3. c \in 1..N
    BY <1>1, <2>1, <2>2
  <2>4. f.buffers[c] = IF c = b THEN r ELSE e2.buffers[c]
    BY <1>9, <1>10, <1>11, <2>1, <2>2, <2>3
  <2>5. c # b
    BY <1>8, <1>13, <2>4
  <2>. QED
    BY <1>7, <1>13, <2>3, <2>4, <2>5
<1>14. KeepsUnmodified(f, e)
  BY <1>13 DEF KeepsUnmodified
<1>. QED
  BY <1>14 DEF f

LEMMA AppliedKeeps ==
    ASSUME NEW e \in Editor, NEW u, Listed(e), Fits(e, u)
    PROVE  KeepsUnmodified(Applied(e, u), e)
<1>1. u \in Undo /\ u.buffer \in 1..Len(e.buffers) /\ e.buffers[u.buffer].open
  BY DEF Fits
<1>2. CASE u.op = "replace"
  <2>1. u.offset \in 0..Len(TextOf(e, u.buffer)) /\ u.size \in Nat /\ u.str \in Seq(Char)
    BY <1>1, <1>2 DEF Fits, Undo
  <2>. QED
    BY <1>1, <1>2, <2>1, ReplacedKeeps DEF Applied
<1>3. CASE u.op = "rename"
  <2>1. u.name \in Name /\ u.name # NameOf(e, u.buffer)
    BY <1>1, <1>3 DEF Fits, Undo
  <2>. QED
    BY <1>1, <1>3, <2>1, RenamedKeeps DEF Applied
<1>4. CASE u.op = "move"
  <2>1. Block(e, From(u), To(u), u.size)
    BY <1>4 DEF Fits
  <2>2. KeepsUnmodified(Moved(e, From(u), To(u), u.size), e)
    BY <2>1, MovedKeeps
  <2>. QED
    BY <1>4, <2>1, <2>2 DEF Applied, Block
<1>5. u.op \in {"replace", "rename", "move"}
  BY <1>1 DEF Undo
<1>. QED
  BY <1>2, <1>3, <1>4, <1>5

-----------------------------------------------------------------------------
(* The names that renames have left                                        *)

\* A name that a rename is undone to is no longer in use, unless its buffer is the
\* one renamed: none of the buffers that later records are about has it (B are those
\* of the records in redoTrack), and no later rename is undone to it
NamesLeft(e, us, B) ==
    /\ \A i, k \in 1..Len(us) :
          i < k /\ us[i].op = "rename" /\ us[k].op = "rename" => us[i].name # us[k].name
    /\ \A k \in 1..Len(us), c \in Nat :
          /\ us[k].op = "rename"
          /\ c \in B \/ \E i \in 1..(k - 1) : Touches(us[i], c)
          /\ \A i \in 1..(k - 1) : ~(us[i].op = "rename" /\ us[i].buffer = c)
          => BufferOf(e, us[k].name) # c

\* The empty buffer that a rename leaves has its name, or another one has taken it
Named(e, us) ==
    \A k \in 1..Len(us) : us[k].op = "rename" => BufferOf(e, us[k].name) # 0

\* A name in the new table is that of the buffer that had it, or of the one renamed
LEMMA OldBuffer ==
    ASSUME NEW e \in Editor, NEW u, Listed(e), Fits(e, u),
           NEW n \in Name, NEW c \in 1..Len(e.buffers), BufferOf(Applied(e, u), n) = c
    PROVE  IF u.op = "rename" /\ c = u.buffer THEN n = u.name ELSE BufferOf(e, n) = c
<1>. DEFINE f == Applied(e, u)
            N == Len(e.buffers)
<1>1. /\ f \in Editor /\ Listed(f) /\ Len(f.buffers) \in Nat /\ Len(f.buffers) >= N
      /\ NameOf(f, c) = IF u.op = "rename" /\ c = u.buffer THEN u.name ELSE NameOf(e, c)
      /\ f.buffers[c].open => e.buffers[c].open
  BY AppliedBuffers
<1>2. N \in Nat
  BY DEF Editor
<1>. HIDE DEF f
<1>3. c \in 1..Len(f.buffers) /\ BufferOf(f, n) = c
  <2>1. BufferOf(f, n) = c
    BY DEF f
  <2>. QED
    BY <1>1, <1>2, <2>1
<1>4. NameOf(f, c) = n /\ f.buffers[c].open
  BY <1>1, <1>3 DEF Listed
<1>5. NameOf(e, c) = n => BufferOf(e, n) = c
  BY <1>1, <1>4 DEF Listed
<1>. QED
  BY <1>1, <1>4, <1>5

\* An edit of e, which is the editor or has one more buffer, of buffers whose names
\* no rename has left, and over no buffer that a record is about
LEMMA EditNoted ==
    ASSUME NEW us \in Seq(Undo), NEW h, NEW texts, LeadsTo(us, h, texts),
           NEW e, Alike(e, h, TouchedAfter(us, 0)), NamesLeft(e, us, {}), Named(e, us),
           NEW u, Fits(e, u),
           \A k \in 1..Len(us), c \in Nat :
              us[k].op = "rename" /\ Touches(u, c) => BufferOf(e, us[k].name) # c,
           u.op = "rename" => BufferOf(e, u.name) \notin TouchedAfter(us, 0)
    PROVE  LET f == Applied(e, u)
               vs == <<UndoOf(e, u)>> \o us
           IN  /\ f \in Editor /\ Listed(f) /\ vs \in Seq(Undo)
               /\ LeadsTo(vs, f, texts) /\ NamesLeft(f, vs, {}) /\ Named(f, vs)
<1>. DEFINE f == Applied(e, u)
            v == UndoOf(e, u)
            vs == <<v>> \o us
            N == Len(us)
            T == TouchedAfter(us, 0)
<1>1. e \in Editor /\ Listed(e) /\ Live(e, T)
  BY DEF Alike
<1>2. /\ f \in Editor /\ Listed(f) /\ Len(f.buffers) \in Nat /\ Len(f.buffers) >= Len(e.buffers)
      /\ \A c \in 1..Len(e.buffers) :
            f.buffers[c].open <=> e.buffers[c].open /\ ~(u.op = "rename" /\ c = BufferOf(e, u.name))
      /\ u.op = "rename" => BufferOf(f, NameOf(e, u.buffer)) = Len(e.buffers) + 1
      /\ \A n \in Name : BufferOf(e, n) # 0 => BufferOf(f, n) # 0
  BY <1>1, AppliedBuffers
<1>3. /\ v.op = u.op /\ \A c \in Nat : Touches(v, c) <=> Touches(u, c)
      /\ u.op = "rename" => v.buffer = u.buffer /\ v.name = NameOf(e, u.buffer)
  BY <1>1, UndoTouches
<1>4. Len(e.buffers) \in Nat /\ u \in Undo /\ u.buffer \in 1..Len(e.buffers) /\ e.buffers[u.buffer].open
  BY <1>1 DEF Editor, Fits
<1>5. Live(f, T)
  <2>1. ASSUME NEW c \in T
        PROVE  c \in 1..Len(f.buffers) /\ f.buffers[c].open
    <3>1. c \in 1..Len(e.buffers) /\ e.buffers[c].open
      BY <1>1 DEF Live
    <3>2. c \in 1..Len(f.buffers)
      BY <1>2, <1>4, <3>1
    <3>. QED
      BY <1>2, <3>1, <3>2
  <2>. QED
    BY <2>1 DEF Live
<1>6. Exact(f, v) /\ Alike(Applied(f, v), e, T)
  BY <1>1, <1>5, AlikeUndone
<1>7. Alike(Applied(f, v), h, T)
  BY <1>6, AlikeTransitive
<1>. HIDE DEF f, v
<1>8. vs \in Seq(Undo) /\ LeadsTo(vs, f, texts)
  BY <1>2, <1>5, <1>6, <1>7, RecordAdded
<1>9. /\ N \in Nat /\ Len(vs) = N + 1 /\ vs[1] = v
      /\ \A i \in 1..N : vs[i + 1] = us[i]
      /\ \A i \in 2..(N + 1) : vs[i] = us[i - 1]
  <2>1. v \in Undo
    BY <1>6 DEF Exact, Fits
  <2>. QED
    BY <2>1, RecordBefore
<1>. HIDE DEF vs, N, T
<1>10. \A k \in 1..N : us[k].op = "rename" => us[k].name \in Name
  <2>1. \A k \in 1..N : us[k] \in Undo
    BY DEF N
  <2>. QED
    BY <2>1 DEF Undo
<1>11. ASSUME NEW i \in 1..Len(vs), NEW k \in 1..Len(vs), i < k,
              vs[i].op = "rename", vs[k].op = "rename"
       PROVE  vs[i].name # vs[k].name
  <2>1. k \in 2..(N + 1) /\ k - 1 \in 1..N /\ vs[k] = us[k - 1]
    <3>1. k \in 2..(N + 1)
      BY <1>9, <1>11
    <3>2. k - 1 \in 1..N
      BY <1>9, <3>1
    <3>. QED
      BY <1>9, <3>1, <3>2
  <2>2. CASE i = 1
    <3>1. u.op = "rename" /\ vs[i].name = NameOf(e, u.buffer)
      BY <1>3, <1>9, <1>11, <2>2
    <3>2. BufferOf(e, us[k - 1].name) # u.buffer
      <4>1. Touches(u, u.buffer) /\ u.buffer \in Nat /\ us[k - 1].op = "rename"
        BY <1>4, <1>11, <2>1 DEF Touches
      <4>. QED
        BY <2>1, <4>1 DEF N
    <3>3. BufferOf(e, NameOf(e, u.buffer)) = u.buffer
      BY <1>1, <1>4, ContentsOfOpen
    <3>. QED
      BY <2>1, <3>1, <3>2, <3>3
  <2>3. CASE i # 1
    <3>1. i \in 2..(N + 1) /\ i - 1 \in 1..N /\ vs[i] = us[i - 1] /\ i - 1 < k - 1
      BY <1>9, <1>11, <2>3
    <3>. QED
      BY <1>11, <2>1, <3>1 DEF NamesLeft, N
  <2>. QED
    BY <2>2, <2>3
<1>12. ASSUME NEW k \in 1..Len(vs), NEW c \in Nat,
              vs[k].op = "rename", \E i \in 1..(k - 1) : Touches(vs[i], c),
              \A i \in 1..(k - 1) : ~(vs[i].op = "rename" /\ vs[i].buffer = c)
       PROVE  BufferOf(f, vs[k].name) # c
  <2>1. PICK i \in 1..(k - 1) : Touches(vs[i], c)
    BY <1>12
  <2>. DEFINE l == k - 1
  <2>2. k \in 2..(N + 1) /\ l \in 1..N /\ vs[k] = us[l] /\ 1 \in 1..(k - 1)
    BY <1>9
  <2>3. us[l].op = "rename" /\ us[l].name \in Name
    BY <1>10, <1>12, <2>2
  <2>4. ~(u.op = "rename" /\ u.buffer = c)
    BY <1>3, <1>9, <1>12, <2>2
  <2>5. \A j \in 1..(l - 1) : ~(us[j].op = "rename" /\ us[j].buffer = c)
    <3>1. \A j \in 1..(l - 1) : j + 1 \in 1..(k - 1) /\ j \in 1..N /\ vs[j + 1] = us[j]
      BY <1>9, <2>2
    <3>. QED
      BY <1>12, <3>1
  <2>. HIDE DEF l
  <2>6. BufferOf(e, us[l].name) # c
    <3>1. CASE i = 1
      <4>1. Touches(u, c)
        BY <1>3, <1>9, <2>1, <3>1
      <4>. QED
        BY <2>2, <2>3, <4>1 DEF N
    <3>2. CASE i # 1
      <4>1. i - 1 \in 1..(l - 1) /\ vs[i] = us[i - 1]
        BY <1>9, <2>2, <3>2 DEF l
      <4>2. \E j \in 1..(l - 1) : Touches(us[j], c)
        BY <2>1, <4>1
      <4>. QED
        BY <2>2, <2>3, <2>5, <4>2 DEF NamesLeft, N
    <3>. QED
      BY <3>1, <3>2
  <2>7. c \in 1..Len(e.buffers)
    <3>1. CASE i = 1
      <4>1. Touches(u, c)
        BY <1>3, <1>9, <2>1, <3>1
      <4>2. u.op = "move" => u.dbuffer \in 1..Len(e.buffers)
        BY DEF Fits, Block, To
      <4>. QED
        BY <1>4, <4>1, <4>2 DEF Touches
    <3>2. CASE i # 1
      <4>1. i - 1 \in (0 + 1)..N /\ vs[i] = us[i - 1]
        BY <1>9, <2>2, <3>2
      <4>2. c \in T
        BY <2>1, <4>1 DEF T, TouchedAfter, N
      <4>. QED
        BY <1>1, <4>2 DEF Live
    <3>. QED
      BY <3>1, <3>2
  <2>8. SUFFICES ASSUME BufferOf(f, us[l].name) = c PROVE FALSE
    BY <2>2
  <2>. QED
    BY <1>1, <2>3, <2>4, <2>6, <2>7, <2>8, OldBuffer DEF f
<1>13. NamesLeft(f, vs, {})
  BY <1>11, <1>12 DEF NamesLeft
<1>14. Named(f, vs)
  <2>. SUFFICES ASSUME NEW k \in 1..Len(vs), vs[k].op = "rename"
                PROVE  BufferOf(f, vs[k].name) # 0
    BY DEF Named
  <2>1. CASE k = 1
    <3>1. BufferOf(f, vs[k].name) = Len(e.buffers) + 1
      BY <1>2, <1>3, <1>9, <2>1
    <3>. QED
      BY <1>4, <3>1
  <2>2. CASE k # 1
    <3>1. k - 1 \in 1..N /\ vs[k] = us[k - 1]
      BY <1>9, <2>2
    <3>2. BufferOf(e, us[k - 1].name) # 0 /\ us[k - 1].name \in Name
      BY <1>10, <3>1 DEF Named, N
    <3>. QED
      BY <1>2, <3>1, <3>2
  <2>. QED
    BY <2>1, <2>2
<1>. QED
  BY <1>2, <1>8, <1>13, <1>14 DEF f, v, vs

\* A round of editorApplyUndos() on the records us, which notes rs
LEMMA RoundNoted ==
    ASSUME NEW us \in Seq(Undo), us # <<>>, NEW rs \in Seq(Undo), NEW e, NEW texts, NEW goal,
           LeadsTo(us, e, texts), LeadsTo(rs, e, goal),
           NamesLeft(e, us, TouchedAfter(rs, 0)), Named(e, us)
    PROVE  LET u == Head(us)
               f == Applied(e, u)
               ws == Tail(us)
               vs == <<UndoOf(e, u)>> \o rs
           IN  /\ Exact(e, u) /\ f \in Editor /\ Listed(f)
               /\ ws \in Seq(Undo) /\ vs \in Seq(Undo)
               /\ LeadsTo(ws, f, texts) /\ LeadsTo(vs, f, goal)
               /\ NamesLeft(f, ws, TouchedAfter(vs, 0)) /\ Named(f, ws)
<1>. DEFINE u == Head(us)
            f == Applied(e, u)
            v == UndoOf(e, u)
            ws == Tail(us)
            vs == <<v>> \o rs
            N == Len(us)
            T == TouchedAfter(rs, 0)
<1>1. /\ e \in Editor /\ Listed(e) /\ Exact(e, u) /\ Live(e, TouchedAfter(us, 0))
      /\ LeadsTo(ws, f, texts)
  BY RecordApplied
<1>2. Live(e, T)
  BY TrailLives
<1>3. /\ u = us[1] /\ N \in Nat /\ N >= 1 /\ ws \in Seq(Undo) /\ Len(ws) = N - 1
      /\ \A i \in 1..(N - 1) : ws[i] = us[i + 1]
  BY RecordsLeft
<1>4. Fits(e, u)
  BY <1>1 DEF Exact
<1>5. /\ f \in Editor /\ Listed(f) /\ Len(f.buffers) \in Nat /\ Len(f.buffers) >= Len(e.buffers)
      /\ \A c \in 1..Len(e.buffers) :
            f.buffers[c].open <=> e.buffers[c].open /\ ~(u.op = "rename" /\ c = BufferOf(e, u.name))
      /\ \A n \in Name : BufferOf(e, n) # 0 => BufferOf(f, n) # 0
  BY <1>1, <1>4, AppliedBuffers
<1>6. \A c \in Nat : Touches(v, c) <=> Touches(u, c)
  BY <1>1, <1>4, UndoTouches
<1>7. Len(e.buffers) \in Nat
  BY <1>1 DEF Editor
<1>. HIDE DEF u, ws, N
<1>8. u.op = "rename" => \A c \in T : BufferOf(e, u.name) # c
  <2>1. 1 \in 1..N /\ \A i \in 1..(1 - 1) : FALSE
    BY <1>3
  <2>2. \A c \in T : c \in Nat
    BY DEF TouchedAfter
  <2>. QED
    BY <1>3, <2>1, <2>2 DEF NamesLeft, N
<1>9. Live(f, T)
  <2>1. ASSUME NEW c \in T
        PROVE  c \in 1..Len(f.buffers) /\ f.buffers[c].open
    <3>1. c \in 1..Len(e.buffers) /\ e.buffers[c].open
      BY <1>2 DEF Live
    <3>2. c \in 1..Len(f.buffers)
      BY <1>5, <1>7, <3>1
    <3>. QED
      BY <1>5, <1>8, <3>1, <3>2
  <2>. QED
    BY <2>1 DEF Live
<1>10. Exact(f, v) /\ Alike(Applied(f, v), e, T)
  BY <1>1, <1>2, <1>4, <1>9, AlikeUndone
<1>. HIDE DEF f, v
<1>11. vs \in Seq(Undo) /\ LeadsTo(vs, f, goal)
  BY <1>5, <1>9, <1>10, RecordAdded
<1>12. TouchedAfter(vs, 0) = {c \in Nat : Touches(v, c)} \cup T
  <2>1. v \in Undo
    BY <1>10 DEF Exact, Fits
  <2>. QED
    BY <2>1, TouchedBefore
<1>. HIDE DEF vs, T
<1>13. \A k \in 1..N : us[k].op = "rename" => us[k].name \in Name
  <2>1. \A k \in 1..N : us[k] \in Undo
    BY DEF N
  <2>. QED
    BY <2>1 DEF Undo
<1>14. ASSUME NEW i \in 1..Len(ws), NEW k \in 1..Len(ws), i < k,
              ws[i].op = "rename", ws[k].op = "rename"
       PROVE  ws[i].name # ws[k].name
  <2>1. /\ i + 1 \in 1..N /\ k + 1 \in 1..N /\ i + 1 < k + 1
        /\ ws[i] = us[i + 1] /\ ws[k] = us[k + 1]
    <3>1. i \in 1..(N - 1) /\ k \in 1..(N - 1)
      BY <1>3
    <3>2. i + 1 \in 1..N /\ k + 1 \in 1..N /\ i + 1 < k + 1
      BY <1>3, <1>14, <3>1
    <3>3. ws[i] = us[i + 1] /\ ws[k] = us[k + 1]
      BY <1>3, <3>1
    <3>. QED
      BY <3>2, <3>3
  <2>. QED
    BY <1>14, <2>1 DEF NamesLeft, N
<1>15. ASSUME NEW k \in 1..Len(ws), NEW c \in Nat, ws[k].op = "rename",
              c \in TouchedAfter(vs, 0) \/ \E i \in 1..(k - 1) : Touches(ws[i], c),
              \A i \in 1..(k - 1) : ~(ws[i].op = "rename" /\ ws[i].buffer = c)
       PROVE  BufferOf(f, ws[k].name) # c
  <2>. DEFINE l == k + 1
  <2>1. /\ l \in 1..N /\ ws[k] = us[l] /\ 1 \in 1..(l - 1) /\ 1 < l /\ 1 \in 1..N
        /\ \A i \in 1..(k - 1) : i + 1 \in 1..(l - 1) /\ i + 1 \in 1..N /\ ws[i] = us[i + 1]
        /\ \A i \in 1..(l - 1) : i # 1 => i - 1 \in 1..(k - 1) /\ ws[i - 1] = us[i]
    <3>1. l \in 1..N /\ ws[k] = us[l] /\ 1 \in 1..(l - 1) /\ 1 < l /\ 1 \in 1..N
      BY <1>3
    <3>2. ASSUME NEW i \in 1..(k - 1)
          PROVE  i + 1 \in 1..(l - 1) /\ i + 1 \in 1..N /\ ws[i] = us[i + 1]
      BY <1>3
    <3>3. ASSUME NEW i \in 1..(l - 1), i # 1
          PROVE  i - 1 \in 1..(k - 1) /\ ws[i - 1] = us[i]
      <4>1. i \in 2..k /\ k \in 1..(N - 1)
        BY <1>3, <3>3
      <4>2. i - 1 \in 1..(k - 1)
        BY <4>1
      <4>3. i - 1 \in 1..(N - 1) /\ (i - 1) + 1 = i
        BY <1>3, <4>1
      <4>4. ws[i - 1] = us[(i - 1) + 1]
        BY <1>3, <4>3
      <4>. QED
        BY <4>2, <4>3, <4>4
    <3>. QED
      BY <3>1, <3>2, <3>3
  <2>. HIDE DEF l
  <2>2. us[l].op = "rename" /\ us[l].name \in Name
    BY <1>13, <1>15, <2>1
  <2>3. c \in T \/ \E i \in 1..(l - 1) : Touches(us[i], c)
    BY <1>3, <1>6, <1>12, <1>15, <2>1
  <2>4. c \in 1..Len(e.buffers)
    <3>1. CASE c \in T
      BY <1>2, <3>1 DEF Live
    <3>2. CASE \E i \in 1..(l - 1) : Touches(us[i], c)
      <4>1. \A i \in 1..(l - 1) : i \in (0 + 1)..N
        BY <1>3, <2>1
      <4>2. c \in TouchedAfter(us, 0)
        BY <3>2, <4>1 DEF TouchedAfter, N
      <4>. QED
        BY <1>1, <4>2 DEF Live
    <3>. QED
      BY <2>3, <3>1, <3>2
  <2>5. SUFFICES ASSUME BufferOf(f, us[l].name) = c PROVE FALSE
    BY <2>1
  <2>6. IF u.op = "rename" /\ c = u.buffer THEN us[l].name = u.name ELSE BufferOf(e, us[l].name) = c
    BY <1>1, <1>4, <2>2, <2>4, <2>5, OldBuffer DEF f
  <2>7. CASE u.op = "rename" /\ c = u.buffer
    <3>1. us[1].op = "rename" /\ us[1].name = us[l].name
      BY <1>3, <2>6, <2>7
    <3>. QED
      BY <2>1, <2>2, <3>1 DEF NamesLeft, N
  <2>8. CASE ~(u.op = "rename" /\ c = u.buffer)
    <3>1. ASSUME NEW i \in 1..(l - 1)
          PROVE  ~(us[i].op = "rename" /\ us[i].buffer = c)
      <4>1. CASE i = 1
        BY <1>3, <2>8, <4>1
      <4>2. CASE i # 1
        <5>1. i - 1 \in 1..(k - 1) /\ ws[i - 1] = us[i]
          BY <2>1, <4>2
        <5>2. ~(ws[i - 1].op = "rename" /\ ws[i - 1].buffer = c)
          BY <1>15, <5>1
        <5>. QED
          BY <5>1, <5>2
      <4>. QED
        BY <4>1, <4>2
    <3>2. BufferOf(e, us[l].name) = c
      BY <2>6, <2>8
    <3>. QED
      BY <2>1, <2>2, <2>3, <3>1, <3>2 DEF NamesLeft, N, T
  <2>. QED
    BY <2>7, <2>8
<1>16. NamesLeft(f, ws, TouchedAfter(vs, 0))
  BY <1>14, <1>15 DEF NamesLeft
<1>17. Named(f, ws)
  <2>. SUFFICES ASSUME NEW k \in 1..Len(ws), ws[k].op = "rename"
                PROVE  BufferOf(f, ws[k].name) # 0
    BY DEF Named
  <2>1. k + 1 \in 1..N /\ ws[k] = us[k + 1]
    BY <1>3
  <2>2. BufferOf(e, us[k + 1].name) # 0 /\ us[k + 1].name \in Name
    BY <1>13, <2>1 DEF Named, N
  <2>. QED
    BY <1>5, <2>1, <2>2
<1>. QED
  BY <1>1, <1>3, <1>5, <1>11, <1>16, <1>17 DEF u, f, v, ws, vs

-----------------------------------------------------------------------------
(* A header that is made                                                   *)

\* The empty buffer of a new file makes no difference to the records
LEMMA CreatedNoted ==
    ASSUME NEW e \in Editor, Listed(e), NEW n \in Name, BufferOf(e, n) = 0,
           NEW us \in Seq(Undo), Live(e, TouchedAfter(us, 0)),
           NamesLeft(e, us, {}), Named(e, us)
    PROVE  LET f == Created(e, n, FALSE)
           IN  /\ Alike(f, e, TouchedAfter(us, 0))
               /\ NamesLeft(f, us, {}) /\ Named(f, us)
<1>. DEFINE f == Created(e, n, FALSE)
            N == Len(e.buffers)
            T == TouchedAfter(us, 0)
<1>1. IsCreated(f, e, n, FALSE)
  BY CreatedProperties
<1>. HIDE DEF f
<1>2. /\ f \in Editor /\ Len(f.buffers) = N + 1 /\ N \in Nat
      /\ \A y \in Name : BufferOf(f, y) = IF y = n THEN N + 1 ELSE BufferOf(e, y)
      /\ NameOf(f, N + 1) = n /\ TextOf(f, N + 1) = <<>> /\ f.buffers[N + 1].open
  <2>1. N \in Nat /\ N + 1 \in 1..(N + 1)
    BY DEF Editor
  <2>2. f.buffers[N + 1] = [fileName |-> n, text |-> <<>>, modified |-> FALSE, open |-> TRUE]
    BY <1>1, <2>1 DEF IsCreated
  <2>3. NameOf(f, N + 1) = n /\ TextOf(f, N + 1) = <<>> /\ f.buffers[N + 1].open
    BY <2>2 DEF NameOf, TextOf
  <2>. QED
    BY <1>1, <2>1, <2>3 DEF IsCreated
<1>3. ASSUME NEW c \in 1..N
      PROVE  /\ c \in 1..(N + 1) /\ c # N + 1 /\ NameOf(f, c) = NameOf(e, c)
             /\ TextOf(f, c) = TextOf(e, c) /\ f.buffers[c].open = e.buffers[c].open
  <2>1. c \in 1..(N + 1) /\ c # N + 1
    BY <1>2
  <2>2. f.buffers[c] = e.buffers[c]
    BY <1>1, <2>1 DEF IsCreated
  <2>. QED
    BY <2>1, <2>2 DEF NameOf, TextOf
<1>4. \A y \in Name : BufferOf(e, y) \in 0..N
  BY DEF Listed
<1>5. Listed(f)
  <2>1. \A y \in Name : BufferOf(f, y) \in 0..Len(f.buffers)
    BY <1>2, <1>4
  <2>2. ASSUME NEW y \in Name, NEW c \in 1..(N + 1)
        PROVE  BufferOf(f, y) = c <=> NameOf(f, c) = y /\ f.buffers[c].open
    <3>1. CASE c = N + 1
      <4>1. BufferOf(f, y) = N + 1 <=> y = n
        BY <1>2, <1>4
      <4>. QED
        BY <1>2, <3>1, <4>1
    <3>2. CASE c # N + 1
      <4>1. c \in 1..N
        BY <1>2, <3>2
      <4>2. BufferOf(e, y) = c <=> NameOf(e, c) = y /\ e.buffers[c].open
        BY <4>1 DEF Listed
      <4>3. BufferOf(f, y) = c <=> BufferOf(e, y) = c
        BY <1>2, <3>2, <4>1
      <4>. QED
        BY <1>3, <4>1, <4>2, <4>3
    <3>. QED
      BY <3>1, <3>2
  <2>. QED
    BY <1>2, <2>1, <2>2 DEF Listed
<1>6. Contents(f) = Contents(e)
  <2>1. ASSUME NEW y \in Name
        PROVE  (IF BufferOf(f, y) = 0 THEN <<>> ELSE TextOf(f, BufferOf(f, y)))
                 = (IF BufferOf(e, y) = 0 THEN <<>> ELSE TextOf(e, BufferOf(e, y)))
    <3>1. CASE y = n
      BY <1>2, <3>1
    <3>2. CASE y # n /\ BufferOf(e, y) = 0
      BY <1>2, <3>2
    <3>3. CASE y # n /\ BufferOf(e, y) # 0
      <4>1. BufferOf(e, y) \in 1..N /\ BufferOf(f, y) = BufferOf(e, y)
        BY <1>2, <1>4, <3>3
      <4>. QED
        BY <1>3, <3>3, <4>1
    <3>. QED
      BY <3>1, <3>2, <3>3
  <2>. QED
    BY <2>1 DEF Contents
<1>7. Alike(f, e, T)
  <2>1. ASSUME NEW c \in T
        PROVE  /\ c \in 1..Len(e.buffers) /\ e.buffers[c].open
               /\ c \in 1..Len(f.buffers) /\ f.buffers[c].open /\ NameOf(f, c) = NameOf(e, c)
    <3>1. c \in 1..N /\ e.buffers[c].open
      BY DEF Live
    <3>. QED
      BY <1>2, <1>3, <3>1
  <2>2. Live(e, T) /\ Live(f, T) /\ \A c \in T : NameOf(f, c) = NameOf(e, c)
    BY <2>1 DEF Live
  <2>. QED
    BY <1>2, <1>5, <1>6, <2>2 DEF Alike
<1>8. ASSUME NEW k \in 1..Len(us), us[k].op = "rename"
      PROVE  BufferOf(f, us[k].name) = BufferOf(e, us[k].name) /\ BufferOf(e, us[k].name) # 0
  <2>1. us[k].name \in Name
    <3>1. us[k] \in Undo
      OBVIOUS
    <3>. QED
      BY <1>8, <3>1 DEF Undo
  <2>2. BufferOf(e, us[k].name) # 0
    BY <1>8 DEF Named
  <2>. QED
    BY <1>2, <2>1, <2>2
<1>9. NamesLeft(f, us, {})
  BY <1>8 DEF NamesLeft
<1>10. Named(f, us)
  BY <1>8 DEF Named
<1>. QED
  BY <1>7, <1>9, <1>10 DEF f

-----------------------------------------------------------------------------
(* The editor and its trails, in every state                               *)

\* The table, the markers and the unmodified buffers are right
Sound(e) == e \in Editor /\ Listed(e) /\ MarkersIn(e) /\ AsOpened(e)

LEMMA AppliedSound ==
    ASSUME NEW e, Sound(e), NEW u, Fits(e, u)
    PROVE  Sound(Applied(e, u))
<1>1. Applied(e, u) \in Editor /\ Listed(Applied(e, u))
  BY AppliedBuffers DEF Sound
<1>2. MarkersIn(Applied(e, u))
  BY MarkersStayIn DEF Sound
<1>3. AsOpened(Applied(e, u))
  BY AppliedKeeps, AsOpenedKept DEF Sound
<1>. QED
  BY <1>1, <1>2, <1>3 DEF Sound

\* A header with its first text
LEMMA CreatedSound ==
    ASSUME NEW e, Sound(e), NEW n \in Name, BufferOf(e, n) = 0, NEW s \in Seq(Char),
           Listed(Created(e, n, FALSE))
    PROVE  LET f == Created(e, n, FALSE)
               b == Len(f.buffers)
           IN  /\ b \in 1..Len(f.buffers) /\ f.buffers[b].open /\ NameOf(f, b) = n
               /\ 0 \in 0..Len(TextOf(f, b))
               /\ Sound(Replaced(f, b, 0, 0, s))
<1>. DEFINE f == Created(e, n, FALSE)
            N == Len(e.buffers)
            b == N + 1
            g == Replaced(f, b, 0, 0, s)
<1>1. e \in Editor /\ MarkersIn(e) /\ AsOpened(e) /\ N \in Nat
  BY DEF Sound, Editor
<1>2. IsCreated(f, e, n, FALSE)
  BY <1>1, CreatedProperties
<1>. HIDE DEF f
<1>3. /\ f \in Editor /\ Len(f.buffers) = N + 1 /\ f.markers = e.markers
      /\ NameOf(f, b) = n /\ TextOf(f, b) = <<>> /\ f.buffers[b].open
  BY <1>1, <1>2 DEF IsCreated, NameOf, TextOf
<1>4. \A c \in 1..N : c \in 1..(N + 1) /\ c # N + 1 /\ f.buffers[c] = e.buffers[c]
  <2>1. \A c \in 1..N : c \in 1..(N + 1) /\ c # N + 1
    BY <1>1
  <2>. QED
    BY <2>1, <1>2 DEF IsCreated
<1>5. b \in 1..Len(f.buffers) /\ Len(TextOf(f, b)) = 0 /\ 0 \in 0..Len(TextOf(f, b))
  <2>1. Len(TextOf(f, b)) = 0
    BY <1>3
  <2>. QED
    BY <1>1, <1>3, <2>1
<1>6. Listed(f)
  BY DEF f
<1>7. MarkersIn(f)
  <2>1. ASSUME NEW m \in Marker
        PROVE  /\ f.markers[m].buffer \in 1..Len(f.buffers)
               /\ f.markers[m].offset <= Len(TextOf(f, f.markers[m].buffer))
    <3>1. /\ f.markers[m].buffer \in 1..N
          /\ f.markers[m].offset <= Len(TextOf(e, f.markers[m].buffer))
      BY <1>1, <1>3 DEF MarkersIn
    <3>. QED
      BY <1>3, <1>4, <3>1 DEF TextOf
  <2>. QED
    BY <2>1 DEF MarkersIn
<1>8. SameBuffers(g, f)
  BY <1>3, <1>5, ReplaceIsUndone
<1>9. MarkersIn(g)
  BY <1>3, <1>5, <1>7, ReplacedMarkers
<1>10. Listed(g)
  BY <1>3, <1>6, <1>8, SameBuffersListed
<1>11. MarksOne(g, f, b)
  <2>1. Markable(f) /\ b \in DOMAIN f.buffers
    BY <1>3, <1>5, EditorMarkable
  <2>. QED
    BY <2>1, ReplacedMarks
<1>12. AsOpened(g)
  <2>1. ASSUME NEW c \in 1..Len(g.buffers), g.buffers[c].open, ~g.buffers[c].modified
        PROVE  c \in 1..Len(e.buffers) /\ g.buffers[c] = e.buffers[c]
    <3>1. c # b /\ c \in 1..(N + 1)
      BY <1>3, <1>8, <1>11, <2>1 DEF MarksOne, SameBuffers
    <3>2. c \in 1..N /\ c \in DOMAIN f.buffers
      BY <1>1, <1>3, <3>1, EditorMarkable
    <3>. QED
      BY <1>4, <1>11, <3>1, <3>2 DEF MarksOne
  <2>2. KeepsUnmodified(g, e)
    BY <2>1 DEF KeepsUnmodified
  <2>. QED
    BY <1>1, <2>2, AsOpenedKept
<1>13. Sound(g)
  BY <1>8, <1>9, <1>10, <1>12 DEF Sound, SameBuffers
<1>. QED
  BY <1>3, <1>5, <1>13 DEF f, g

\* The records of editorUndo lead back to the client's texts; those that undoing
\* them has noted lead to the edited ones
Inv ==
    /\ Sound(editor)
    /\ edited \in Editor /\ editorUndo \in Seq(Undo) /\ redoTrack \in Seq(Undo)
    /\ edits \in 0..MaxEdits /\ phase \in {"edit", "undo", "replay"}
    /\ LeadsTo(editorUndo, editor, client)
    /\ NamesLeft(editor, editorUndo, TouchedAfter(redoTrack, 0))
    /\ Named(editor, editorUndo)
    /\ phase = "edit" => redoTrack = <<>>
    /\ phase # "edit" => LeadsTo(redoTrack, editor, Contents(edited))
    /\ phase = "replay" => editorUndo = <<>>

LEMMA NoRecords ==
    /\ <<>> \in Seq(Undo) /\ Len(<<>>) = 0 /\ TouchedAfter(<<>>, 0) = {}
    /\ \A e, B : NamesLeft(e, <<>>, B) /\ Named(e, <<>>)
<1>1. <<>> \in Seq(Undo) /\ Len(<<>>) = 0
  OBVIOUS
<1>2. 1..Len(<<>>) = {} /\ (0 + 1)..Len(<<>>) = {}
  BY <1>1
<1>3. TouchedAfter(<<>>, 0) = {}
  BY <1>2 DEF TouchedAfter
<1>4. \A e, B : NamesLeft(e, <<>>, B) /\ Named(e, <<>>)
  BY <1>2 DEF NamesLeft, Named
<1>. QED
  BY <1>1, <1>3, <1>4

\* The files as they were opened
LEMMA InitInv == Init => Inv
<1>. SUFFICES ASSUME Init PROVE Inv
  OBVIOUS
<1>. DEFINE K == Len(Opened)
            bs == [i \in 1..K |-> [fileName |-> Opened[i].fileName, text |-> Opened[i].text,
                                   modified |-> FALSE, open |-> TRUE]]
            named(n, i) == i \in 1..K /\ Opened[i].fileName = n
            tab == [n \in Name |-> IF \E i \in 1..K : Opened[i].fileName = n
                                   THEN CHOOSE i \in 1..K : Opened[i].fileName = n
                                   ELSE 0]
            places == UNION {{[buffer |-> i, offset |-> o] : o \in 0..Len(Opened[i].text)} :
                             i \in 1..K}
<1>1. PICK ms \in [Marker -> places] :
         editor = [buffers |-> bs, table |-> tab, markers |-> ms]
  BY DEF Init
<1>2. K \in Nat /\ \A i \in 1..K : Opened[i] \in [fileName : Name, text : Seq(Char)]
  <2>1. Opened \in Seq([fileName : Name, text : Seq(Char)])
    BY EditorAssumption
  <2>. QED
    BY <2>1, LenProperties, ElementOfSeq
<1>3. \A i \in 1..K : Opened[i].fileName \in Name /\ Opened[i].text \in Seq(Char)
  BY <1>2
<1>4. bs \in Seq(BufferRecord) /\ Len(bs) = K
  <2>1. \A i \in 1..K : bs[i] \in BufferRecord
    BY <1>3 DEF BufferRecord
  <2>2. bs \in [1..K -> BufferRecord]
    BY <2>1
  <2>. HIDE DEF bs, K
  <2>3. bs \in Seq(BufferRecord)
    BY <1>2, <2>2
  <2>4. Len(bs) = K
    BY <1>2, <2>2, <2>3
  <2>. QED
    BY <2>3, <2>4
<1>5. \A i \in 1..K : /\ bs[i].fileName = Opened[i].fileName /\ bs[i].text = Opened[i].text
                      /\ bs[i].open
  OBVIOUS
<1>6. \A n \in Name : /\ tab[n] \in 0..K
                      /\ \A i \in 1..K : tab[n] = i <=> Opened[i].fileName = n
  <2>. TAKE n \in Name
  <2>1. CASE \E i \in 1..K : Opened[i].fileName = n
    <3>1. tab[n] \in 1..K /\ Opened[tab[n]].fileName = n
      BY <2>1
    <3>2. \A i, j \in 1..K : Opened[i].fileName = Opened[j].fileName => i = j
      BY EditorAssumption
    <3>. QED
      BY <1>2, <3>1, <3>2
  <2>2. CASE ~\E i \in 1..K : Opened[i].fileName = n
    <3>1. tab[n] = 0
      BY <2>2
    <3>. QED
      BY <1>2, <2>2, <3>1
  <2>. QED
    BY <2>1, <2>2
<1>7. tab \in [Name -> Nat]
  <2>1. \A n \in Name : tab[n] \in Nat
    <3>. HIDE DEF tab, K
    <3>. QED
      BY <1>2, <1>6
  <2>2. tab = [n \in Name |-> tab[n]]
    OBVIOUS
  <2>. QED
    BY <2>1, <2>2
<1>. HIDE DEF tab, bs
<1>8. \A m \in Marker : /\ ms[m] \in Place /\ ms[m].buffer \in 1..K
                        /\ ms[m].offset <= Len(Opened[ms[m].buffer].text)
  <2>. TAKE m \in Marker
  <2>1. PICK i \in 1..K : \E o \in 0..Len(Opened[i].text) : ms[m] = [buffer |-> i, offset |-> o]
    BY <1>1
  <2>2. PICK o \in 0..Len(Opened[i].text) : ms[m] = [buffer |-> i, offset |-> o]
    BY <2>1
  <2>3. Len(Opened[i].text) \in Nat
    BY <1>3
  <2>4. ms[m].buffer = i /\ ms[m].offset = o
    BY <2>2
  <2>5. o \in Nat /\ o <= Len(Opened[i].text) /\ i \in Nat \ {0}
    BY <1>2, <2>3
  <2>. QED
    BY <2>2, <2>4, <2>5 DEF Place
<1>. HIDE DEF places, K
<1>9. ms \in [Marker -> Place]
  BY <1>1, <1>8
<1>10. /\ editor \in Editor /\ editor.buffers = bs /\ editor.table = tab
       /\ editor.markers = ms
  BY <1>1, <1>4, <1>7, <1>9 DEF Editor
<1>11. Listed(editor)
  BY <1>4, <1>5, <1>6, <1>10 DEF Listed, BufferOf, NameOf
<1>12. MarkersIn(editor)
  BY <1>4, <1>5, <1>8, <1>10 DEF MarkersIn, TextOf
<1>13. AsOpened(editor)
  <2>1. ASSUME NEW b \in 1..Len(editor.buffers)
        PROVE  /\ b <= Len(Opened) /\ NameOf(editor, b) = Opened[b].fileName
               /\ TextOf(editor, b) = Opened[b].text
    BY <1>2, <1>4, <1>5, <1>10, <2>1 DEF NameOf, TextOf, K
  <2>. QED
    BY <2>1 DEF AsOpened
<1>14. Sound(editor)
  BY <1>10, <1>11, <1>12, <1>13 DEF Sound
<1>15. /\ editorUndo = <<>> /\ redoTrack = <<>> /\ phase = "edit" /\ edits = 0
       /\ client = Contents(editor) /\ edited = editor
  BY DEF Init
<1>16. edits \in 0..MaxEdits
  BY <1>15, EditorAssumption
<1>17. LeadsTo(editorUndo, editor, client)
  BY <1>10, <1>11, <1>15, NothingLeft
<1>18. phase = "edit" /\ phase \in {"edit", "undo", "replay"} /\ phase # "replay"
  BY <1>15
<1>. QED
  BY <1>10, <1>14, <1>15, <1>16, <1>17, <1>18, NoRecords DEF Inv

\* An edit, which is noted
LEMMA StepNoted ==
    ASSUME Inv, phase = "edit", NEW e, NEW u,
           Alike(e, editor, TouchedAfter(editorUndo, 0)),
           NamesLeft(e, editorUndo, {}), Named(e, editorUndo),
           Fits(e, u), Sound(Applied(e, u)),
           \A k \in 1..Len(editorUndo), c \in Nat :
              editorUndo[k].op = "rename" /\ Touches(u, c) => BufferOf(e, editorUndo[k].name) # c,
           u.op = "rename" => BufferOf(e, u.name) \notin TouchedAfter(editorUndo, 0),
           Edit(Applied(e, u), UndoOf(e, u))
    PROVE  Inv'
<1>1. editorUndo \in Seq(Undo) /\ LeadsTo(editorUndo, editor, client)
  BY DEF Inv
<1>. DEFINE f == Applied(e, u)
            vs == <<UndoOf(e, u)>> \o editorUndo
<1>2. vs \in Seq(Undo) /\ LeadsTo(vs, f, client) /\ NamesLeft(f, vs, {}) /\ Named(f, vs)
  BY <1>1, EditNoted
<1>3. /\ editor' = f /\ editorUndo' = vs /\ redoTrack' = redoTrack /\ phase' = phase
      /\ client' = client /\ edited' = edited /\ edits' = edits + 1 /\ edits < MaxEdits
  BY DEF Edit
<1>4. edits' \in 0..MaxEdits
  BY <1>3, EditorAssumption DEF Inv
<1>5. redoTrack = <<>> /\ TouchedAfter(redoTrack', 0) = {}
  BY <1>3, NoRecords DEF Inv
<1>. HIDE DEF f, vs
<1>6. Sound(editor')
  BY <1>3 DEF f
<1>7. edited' \in Editor /\ redoTrack' \in Seq(Undo) /\ phase' = "edit" /\ redoTrack' = <<>>
  BY <1>3, <1>5 DEF Inv
<1>. QED
  BY <1>2, <1>3, <1>4, <1>5, <1>6, <1>7 DEF Inv

\* What may be edited has no name that a rename has left
LEMMA NoNameLeft ==
    ASSUME NEW e \in Editor, Listed(e), NEW us \in Seq(Undo), NEW b \in 1..Len(e.buffers),
           \A i \in 1..Len(us) : us[i].op = "rename" => us[i].name # NameOf(e, b)
    PROVE  \A k \in 1..Len(us) : us[k].op = "rename" => BufferOf(e, us[k].name) # b
<1>. SUFFICES ASSUME NEW k \in 1..Len(us), us[k].op = "rename"
              PROVE  BufferOf(e, us[k].name) # b
  OBVIOUS
<1>1. us[k] \in Undo
  OBVIOUS
<1>2. us[k].name \in Name
  BY <1>1 DEF Undo
<1>. QED
  BY <1>2 DEF Listed

LEMMA InPlace ==
    ASSUME Inv
    PROVE  /\ editor \in Editor /\ Listed(editor) /\ editorUndo \in Seq(Undo)
           /\ Alike(editor, editor, TouchedAfter(editorUndo, 0))
           /\ phase = "edit" => NamesLeft(editor, editorUndo, {}) /\ Named(editor, editorUndo)
<1>1. editor \in Editor /\ Listed(editor) /\ editorUndo \in Seq(Undo)
  BY DEF Inv, Sound
<1>2. Live(editor, TouchedAfter(editorUndo, 0))
  BY TrailLives DEF Inv
<1>3. Alike(editor, editor, TouchedAfter(editorUndo, 0))
  BY <1>1, <1>2 DEF Alike
<1>4. phase = "edit" => NamesLeft(editor, editorUndo, {}) /\ Named(editor, editorUndo)
  BY NoRecords DEF Inv
<1>. QED
  BY <1>1, <1>3, <1>4

LEMMA BuffersProperties ==
    ASSUME Inv, NEW b \in Buffers
    PROVE  /\ b \in 1..Len(editor.buffers) /\ editor.buffers[b].open /\ b \in Nat \ {0}
           /\ TextOf(editor, b) \in Seq(Char) /\ Len(TextOf(editor, b)) \in Nat
           /\ \A k \in 1..Len(editorUndo) :
                 editorUndo[k].op = "rename" => BufferOf(editor, editorUndo[k].name) # b
<1>1. b \in 1..Len(editor.buffers) /\ Editable(b)
  BY DEF Buffers
<1>2. editor \in Editor /\ Listed(editor) /\ editorUndo \in Seq(Undo)
  BY InPlace
<1>3. Len(editor.buffers) \in Nat /\ TextOf(editor, b) \in Seq(Char) /\ Len(TextOf(editor, b)) \in Nat
  BY <1>1, <1>2, BufferType
<1>4. b \in Nat \ {0}
  BY <1>1, <1>3
<1>5. \A i \in 1..Len(editorUndo) :
         editorUndo[i].op = "rename" => editorUndo[i].name # NameOf(editor, b)
  BY <1>1 DEF Editable
<1>6. \A k \in 1..Len(editorUndo) :
         editorUndo[k].op = "rename" => BufferOf(editor, editorUndo[k].name) # b
  BY <1>1, <1>2, <1>5, NoNameLeft
<1>. QED
  BY <1>1, <1>3, <1>4, <1>6 DEF Editable

LEMMA ReplaceKeepsInv == Inv /\ Replace => Inv'
<1>. SUFFICES ASSUME Inv, Replace PROVE Inv'
  OBVIOUS
<1>1. PICK b \in Buffers, s \in Strings : \E o \in 0..Len(TextOf(editor, b)) :
         \E size \in 0..(Len(TextOf(editor, b)) - o + 1) :
            Edit(Replaced(editor, b, o, size, s), UndoOfReplace(editor, b, o, size, s))
  BY DEF Replace
<1>2. PICK o \in 0..Len(TextOf(editor, b)) : \E size \in 0..(Len(TextOf(editor, b)) - o + 1) :
         Edit(Replaced(editor, b, o, size, s), UndoOfReplace(editor, b, o, size, s))
  BY <1>1
<1>3. PICK size \in 0..(Len(TextOf(editor, b)) - o + 1) :
         Edit(Replaced(editor, b, o, size, s), UndoOfReplace(editor, b, o, size, s))
  BY <1>2
<1>. DEFINE u == [op |-> "replace", buffer |-> b, offset |-> o, size |-> size, str |-> s]
<1>4. /\ b \in 1..Len(editor.buffers) /\ editor.buffers[b].open /\ b \in Nat
      /\ Len(TextOf(editor, b)) \in Nat
      /\ \A k \in 1..Len(editorUndo) :
            editorUndo[k].op = "rename" => BufferOf(editor, editorUndo[k].name) # b
  BY BuffersProperties
<1>5. s \in Seq(Char) /\ o \in Nat /\ size \in Nat
  BY <1>4, EditorAssumption
<1>6. u \in Undo /\ u.op = "replace" /\ u.buffer = b /\ u.offset = o /\ u.size = size /\ u.str = s
  BY <1>4, <1>5 DEF Undo
<1>. HIDE DEF u
<1>7. Fits(editor, u)
  BY <1>4, <1>6 DEF Fits
<1>8. /\ Applied(editor, u) = Replaced(editor, b, o, size, s)
      /\ UndoOf(editor, u) = UndoOfReplace(editor, b, o, size, s)
  BY <1>6 DEF Applied, UndoOf
<1>9. phase = "edit"
  BY <1>3 DEF Edit
<1>10. Sound(Applied(editor, u))
  BY <1>7, AppliedSound DEF Inv
<1>11. \A c \in Nat : Touches(u, c) => c = b
  BY <1>6 DEF Touches
<1>. QED
  BY <1>3, <1>4, <1>6, <1>7, <1>8, <1>9, <1>10, <1>11, InPlace, StepNoted

LEMMA MoveBlockKeepsInv == Inv /\ MoveBlock => Inv'
<1>. SUFFICES ASSUME Inv, MoveBlock PROVE Inv'
  OBVIOUS
<1>1. PICK b \in Buffers, c \in Buffers : \E p \in PlacesIn(b), q \in PlacesIn(c) :
         \E size \in 1..(Len(TextOf(editor, b)) - p.offset) :
            /\ ~IntoItself(p, q, size)
            /\ Edit(Moved(editor, p, q, size), UndoOfMove(p, q, size))
  BY DEF MoveBlock
<1>2. PICK p \in PlacesIn(b), q \in PlacesIn(c) :
         \E size \in 1..(Len(TextOf(editor, b)) - p.offset) :
            /\ ~IntoItself(p, q, size)
            /\ Edit(Moved(editor, p, q, size), UndoOfMove(p, q, size))
  BY <1>1
<1>3. PICK size \in 1..(Len(TextOf(editor, b)) - p.offset) :
         /\ ~IntoItself(p, q, size)
         /\ Edit(Moved(editor, p, q, size), UndoOfMove(p, q, size))
  BY <1>2
<1>. DEFINE u == [op |-> "move", buffer |-> p.buffer, offset |-> p.offset, size |-> size,
                  dbuffer |-> q.buffer, doffset |-> q.offset]
<1>4. \A d \in {b, c} :
         /\ d \in 1..Len(editor.buffers) /\ editor.buffers[d].open /\ d \in Nat \ {0}
         /\ Len(TextOf(editor, d)) \in Nat
         /\ \A k \in 1..Len(editorUndo) :
               editorUndo[k].op = "rename" => BufferOf(editor, editorUndo[k].name) # d
  BY BuffersProperties
<1>5. /\ p.buffer = b /\ p.offset \in 0..Len(TextOf(editor, b)) /\ p.offset \in Nat
      /\ q.buffer = c /\ q.offset \in 0..Len(TextOf(editor, c)) /\ q.offset \in Nat
      /\ p = [buffer |-> p.buffer, offset |-> p.offset]
      /\ q = [buffer |-> q.buffer, offset |-> q.offset]
  BY <1>4 DEF PlacesIn
<1>6. p \in Place /\ q \in Place
  BY <1>4, <1>5 DEF Place
<1>7. size \in Nat /\ p.offset + size <= Len(TextOf(editor, b)) /\ q.offset <= Len(TextOf(editor, c))
  BY <1>4, <1>5
<1>8. Block(editor, p, q, size)
  BY <1>3, <1>4, <1>5, <1>6, <1>7 DEF Block
<1>9. /\ u \in Undo /\ u.op = "move" /\ u.buffer = b /\ u.dbuffer = c /\ u.size = size
      /\ From(u) = p /\ To(u) = q
  <2>1. u \in Undo
    BY <1>4, <1>5, <1>7 DEF Undo
  <2>. QED
    BY <1>5, <2>1 DEF From, To
<1>. HIDE DEF u
<1>10. Fits(editor, u)
  BY <1>4, <1>8, <1>9 DEF Fits
<1>11. /\ Applied(editor, u) = Moved(editor, p, q, size)
       /\ UndoOf(editor, u) = UndoOfMove(p, q, size)
  BY <1>3, <1>9 DEF Applied, UndoOf
<1>12. phase = "edit"
  BY <1>3 DEF Edit
<1>13. Sound(Applied(editor, u))
  BY <1>10, AppliedSound DEF Inv
<1>14. \A d \in Nat : Touches(u, d) => d \in {b, c}
  BY <1>9 DEF Touches
<1>. QED
  BY <1>3, <1>4, <1>9, <1>10, <1>11, <1>12, <1>13, <1>14, InPlace, StepNoted

LEMMA RenameFileKeepsInv == Inv /\ RenameFile => Inv'
<1>. SUFFICES ASSUME Inv, RenameFile PROVE Inv'
  OBVIOUS
<1>1. PICK b \in Buffers, n \in Name :
         /\ n # NameOf(editor, b) /\ FreeName(n)
         /\ Edit(Renamed(editor, b, n), UndoOfRename(editor, b))
  BY DEF RenameFile
<1>. DEFINE u == [op |-> "rename", buffer |-> b, name |-> n]
<1>2. /\ b \in 1..Len(editor.buffers) /\ editor.buffers[b].open /\ b \in Nat
      /\ \A k \in 1..Len(editorUndo) :
            editorUndo[k].op = "rename" => BufferOf(editor, editorUndo[k].name) # b
  BY BuffersProperties
<1>3. u \in Undo /\ u.op = "rename" /\ u.buffer = b /\ u.name = n
  BY <1>2 DEF Undo
<1>. HIDE DEF u
<1>4. Fits(editor, u)
  BY <1>1, <1>2, <1>3 DEF Fits, FreeName
<1>5. /\ Applied(editor, u) = Renamed(editor, b, n)
      /\ UndoOf(editor, u) = UndoOfRename(editor, b)
  BY <1>3 DEF Applied, UndoOf
<1>6. phase = "edit"
  BY <1>1 DEF Edit
<1>7. Sound(Applied(editor, u))
  BY <1>4, AppliedSound DEF Inv
<1>8. \A c \in Nat : Touches(u, c) => c = b
  BY <1>3 DEF Touches
<1>9. BufferOf(editor, u.name) \notin TouchedAfter(editorUndo, 0)
  <2>1. \A i \in (0 + 1)..Len(editorUndo) : i \in 1..Len(editorUndo)
    OBVIOUS
  <2>. QED
    BY <1>1, <1>3, <2>1 DEF FreeName, TouchedAfter
<1>. QED
  BY <1>1, <1>2, <1>3, <1>4, <1>5, <1>6, <1>7, <1>8, <1>9, InPlace, StepNoted

LEMMA CreateHeaderKeepsInv == Inv /\ CreateHeader => Inv'
<1>. SUFFICES ASSUME Inv, CreateHeader PROVE Inv'
  OBVIOUS
<1>1. PICK n \in Name, s \in Strings \ {<<>>} :
         LET created == Created(editor, n, FALSE)
             b == Len(created.buffers)
         IN  /\ BufferOf(editor, n) = 0
             /\ Edit(Replaced(created, b, 0, 0, s), UndoOfReplace(created, b, 0, 0, s))
  BY DEF CreateHeader
<1>. DEFINE e == Created(editor, n, FALSE)
            b == Len(e.buffers)
            u == [op |-> "replace", buffer |-> b, offset |-> 0, size |-> 0, str |-> s]
<1>2. BufferOf(editor, n) = 0 /\ s \in Seq(Char) /\ phase = "edit"
      /\ Edit(Replaced(e, b, 0, 0, s), UndoOfReplace(e, b, 0, 0, s))
  BY <1>1, EditorAssumption DEF Edit
<1>3. /\ editor \in Editor /\ Listed(editor) /\ editorUndo \in Seq(Undo)
      /\ NamesLeft(editor, editorUndo, {}) /\ Named(editor, editorUndo)
      /\ Live(editor, TouchedAfter(editorUndo, 0))
  BY <1>2, InPlace DEF Alike
<1>4. /\ Alike(e, editor, TouchedAfter(editorUndo, 0))
      /\ NamesLeft(e, editorUndo, {}) /\ Named(e, editorUndo)
  BY <1>2, <1>3, CreatedNoted
<1>5. e \in Editor /\ Listed(e)
  BY <1>4 DEF Alike
<1>6. /\ b \in 1..Len(e.buffers) /\ e.buffers[b].open /\ NameOf(e, b) = n
      /\ 0 \in 0..Len(TextOf(e, b)) /\ Sound(Replaced(e, b, 0, 0, s))
  BY <1>2, <1>5, CreatedSound DEF Inv
<1>. HIDE DEF e, b
<1>7. b \in Nat
  BY <1>5, <1>6, BufferType
<1>8. u \in Undo /\ u.op = "replace" /\ u.buffer = b /\ u.offset = 0 /\ u.size = 0 /\ u.str = s
  BY <1>2, <1>7 DEF Undo
<1>. HIDE DEF u
<1>9. Fits(e, u)
  BY <1>6, <1>8 DEF Fits
<1>10. /\ Applied(e, u) = Replaced(e, b, 0, 0, s)
       /\ UndoOf(e, u) = UndoOfReplace(e, b, 0, 0, s)
  BY <1>8 DEF Applied, UndoOf
<1>11. ASSUME NEW k \in 1..Len(editorUndo), editorUndo[k].op = "rename"
       PROVE  BufferOf(e, editorUndo[k].name) # b
  <2>1. editorUndo[k] \in Undo
    BY <1>3
  <2>2. editorUndo[k].name \in Name
    BY <1>11, <2>1 DEF Undo
  <2>3. BufferOf(editor, editorUndo[k].name) # 0
    BY <1>3, <1>11 DEF Named
  <2>4. editorUndo[k].name # n
    BY <1>2, <2>3
  <2>. QED
    BY <1>5, <1>6, <2>2, <2>4 DEF Listed
<1>12. \A c \in Nat : Touches(u, c) => c = b
  BY <1>8 DEF Touches
<1>. QED
  BY <1>2, <1>4, <1>6, <1>8, <1>9, <1>10, <1>11, <1>12, StepNoted

LEMMA ApplyWholeRefactoringKeepsInv == Inv /\ ApplyWholeRefactoring => Inv'
<1>. SUFFICES ASSUME Inv, ApplyWholeRefactoring PROVE Inv'
  OBVIOUS
<1>1. /\ phase = "edit" /\ phase' = "undo" /\ edited' = editor
      /\ editor' = editor /\ editorUndo' = editorUndo /\ redoTrack' = redoTrack
      /\ client' = client /\ edits' = edits
  BY DEF ApplyWholeRefactoring
<1>2. redoTrack' = <<>> /\ redoTrack' \in Seq(Undo)
  BY <1>1 DEF Inv
<1>3. editor \in Editor /\ Listed(editor)
  BY InPlace
<1>4. LeadsTo(redoTrack', editor', Contents(edited'))
  BY <1>1, <1>2, <1>3, NothingLeft
<1>5. phase' \in {"edit", "undo", "replay"} /\ phase' # "edit" /\ phase' # "replay"
  BY <1>1
<1>. QED
  BY <1>1, <1>2, <1>3, <1>4, <1>5 DEF Inv

LEMMA UndoOneKeepsInv == Inv /\ UndoOne => Inv'
<1>. SUFFICES ASSUME Inv, UndoOne PROVE Inv'
  OBVIOUS
<1>. DEFINE u == Head(editorUndo)
            f == Applied(editor, u)
            ws == Tail(editorUndo)
            vs == <<UndoOf(editor, u)>> \o redoTrack
            goal == Contents(edited)
<1>1. /\ phase = "undo" /\ editorUndo # <<>> /\ editor' = f /\ redoTrack' = vs
      /\ editorUndo' = ws /\ phase' = phase /\ client' = client /\ edits' = edits
      /\ edited' = edited
  BY DEF UndoOne
<1>2. /\ editorUndo \in Seq(Undo) /\ redoTrack \in Seq(Undo)
      /\ LeadsTo(editorUndo, editor, client) /\ LeadsTo(redoTrack, editor, goal)
      /\ NamesLeft(editor, editorUndo, TouchedAfter(redoTrack, 0)) /\ Named(editor, editorUndo)
  BY <1>1 DEF Inv
<1>3. /\ Exact(editor, u) /\ ws \in Seq(Undo) /\ vs \in Seq(Undo)
      /\ LeadsTo(ws, f, client) /\ LeadsTo(vs, f, goal)
      /\ NamesLeft(f, ws, TouchedAfter(vs, 0)) /\ Named(f, ws)
  BY <1>1, <1>2, RoundNoted
<1>4. Sound(f)
  BY <1>3, AppliedSound DEF Inv, Exact
<1>. HIDE DEF f, ws, vs
<1>5. /\ edited' \in Editor /\ edits' \in 0..MaxEdits /\ phase' \in {"edit", "undo", "replay"}
      /\ Contents(edited') = goal
  BY <1>1 DEF Inv
<1>. HIDE DEF goal
<1>6. /\ editorUndo' \in Seq(Undo) /\ redoTrack' \in Seq(Undo) /\ Sound(editor')
      /\ LeadsTo(editorUndo', editor', client')
      /\ NamesLeft(editor', editorUndo', TouchedAfter(redoTrack', 0))
      /\ Named(editor', editorUndo')
      /\ LeadsTo(redoTrack', editor', Contents(edited'))
  BY <1>1, <1>3, <1>4, <1>5
<1>7. phase' # "edit" /\ phase' # "replay"
  BY <1>1
<1>. QED
  BY <1>5, <1>6, <1>7 DEF Inv

LEMMA BeginReplayKeepsInv == Inv /\ BeginReplay => Inv'
<1>. SUFFICES ASSUME Inv, BeginReplay PROVE Inv'
  OBVIOUS
<1>1. /\ phase = "undo" /\ editorUndo = <<>> /\ phase' = "replay"
      /\ editor' = editor /\ editorUndo' = editorUndo /\ redoTrack' = redoTrack
      /\ client' = client /\ edits' = edits /\ edited' = edited
  BY DEF BeginReplay
<1>2. phase' \in {"edit", "undo", "replay"} /\ phase' # "edit" /\ editorUndo' = <<>>
  BY <1>1
<1>3. LeadsTo(redoTrack', editor', Contents(edited'))
  BY <1>1 DEF Inv
<1>. QED
  BY <1>1, <1>2, <1>3 DEF Inv

LEMMA ReplayOneKeepsInv == Inv /\ ReplayOne => Inv'
<1>. SUFFICES ASSUME Inv, ReplayOne PROVE Inv'
  OBVIOUS
<1>. DEFINE u == Head(redoTrack)
            f == Applied(editor, u)
            ws == Tail(redoTrack)
            goal == Contents(edited)
<1>1. /\ phase = "replay" /\ redoTrack # <<>> /\ editor' = f
      /\ client' = ClientApplied(client, editor, u) /\ redoTrack' = ws
      /\ editorUndo' = editorUndo /\ phase' = phase /\ edits' = edits /\ edited' = edited
  BY DEF ReplayOne
<1>2. /\ redoTrack \in Seq(Undo) /\ LeadsTo(redoTrack, editor, goal)
      /\ editorUndo = <<>> /\ LeadsTo(<<>>, editor, client)
  BY <1>1 DEF Inv
<1>3. editor \in Editor /\ Listed(editor) /\ Contents(editor) = client
  BY <1>2, NothingLeft
<1>4. Exact(editor, u) /\ LeadsTo(ws, f, goal)
  BY <1>1, <1>2, RecordApplied
<1>5. ws \in Seq(Undo)
  BY <1>1, <1>2, RecordsLeft
<1>6. ClientApplied(client, editor, u) = Contents(f)
  BY <1>3, <1>4, ClientKeepsUp
<1>7. Sound(f)
  BY <1>4, AppliedSound DEF Inv, Exact
<1>8. LeadsTo(<<>>, f, Contents(f))
  BY <1>7, NothingLeft DEF Sound
<1>. HIDE DEF f, ws
<1>9. /\ edited' \in Editor /\ edits' \in 0..MaxEdits /\ phase' \in {"edit", "undo", "replay"}
      /\ Contents(edited') = goal
  BY <1>1 DEF Inv
<1>. HIDE DEF goal
<1>10. /\ redoTrack' \in Seq(Undo) /\ Sound(editor') /\ editorUndo' = <<>>
       /\ LeadsTo(editorUndo', editor', client') /\ LeadsTo(redoTrack', editor', Contents(edited'))
  BY <1>1, <1>2, <1>4, <1>5, <1>6, <1>7, <1>8, <1>9
<1>11. phase' # "edit"
  BY <1>1
<1>. QED
  BY <1>9, <1>10, <1>11, NoRecords DEF Inv

LEMMA EndRefactoringKeepsInv == Inv /\ EndRefactoring => Inv'
<1>. SUFFICES ASSUME Inv, EndRefactoring PROVE Inv'
  OBVIOUS
<1>1. /\ phase = "replay" /\ redoTrack = <<>> /\ phase' = "edit"
      /\ editor' = editor /\ editorUndo' = editorUndo /\ redoTrack' = redoTrack
      /\ client' = client /\ edits' = edits /\ edited' = edited
  BY DEF EndRefactoring
<1>2. phase' \in {"edit", "undo", "replay"} /\ phase' # "replay" /\ redoTrack' = <<>>
  BY <1>1
<1>. QED
  BY <1>1, <1>2 DEF Inv

LEMMA NextKeepsInv == Inv /\ [Next]_vars => Inv'
<1>. SUFFICES ASSUME Inv, [Next]_vars PROVE Inv'
  OBVIOUS
<1>1. CASE UNCHANGED vars
  BY <1>1 DEF vars, Inv
<1>. QED
  BY <1>1, ReplaceKeepsInv, MoveBlockKeepsInv, RenameFileKeepsInv, CreateHeaderKeepsInv,
     ApplyWholeRefactoringKeepsInv, UndoOneKeepsInv, BeginReplayKeepsInv, ReplayOneKeepsInv,
     EndRefactoringKeepsInv DEF Next

LEMMA AlwaysInv == Spec => []Inv
BY InitInv, NextKeepsInv, PTL DEF Spec

-----------------------------------------------------------------------------
(* What is true of every refactoring                                       *)

\* The texts of an editor are texts
LEMMA ContentsType ==
    ASSUME NEW e \in Editor, Listed(e)
    PROVE  Contents(e) \in [Name -> Seq(Char)]
<1>1. ASSUME NEW n \in Name
      PROVE  (IF BufferOf(e, n) = 0 THEN <<>> ELSE TextOf(e, BufferOf(e, n))) \in Seq(Char)
  <2>1. CASE BufferOf(e, n) = 0
    BY <2>1, NoText
  <2>2. CASE BufferOf(e, n) # 0
    <3>1. Len(e.buffers) \in Nat /\ BufferOf(e, n) \in 0..Len(e.buffers)
      BY DEF Listed, Editor
    <3>2. BufferOf(e, n) \in 1..Len(e.buffers)
      BY <2>2, <3>1
    <3>. QED
      BY <2>2, <3>2, BufferType
  <2>. QED
    BY <2>1, <2>2
<1>. QED
  BY <1>1 DEF Contents

\* editor.c, undo.c and refactory.c: the editor, the records and the client's texts
\* are what they are meant to be
THEOREM EditorTyped == Spec => []TypeOK
<1>1. Inv => TypeOK
  <2>. SUFFICES ASSUME Inv PROVE TypeOK
    OBVIOUS
  <2>1. PICK tr : Trail(tr, editorUndo, editor) /\ Contents(tr[Len(editorUndo)]) = client
    BY DEF Inv, LeadsTo
  <2>2. editorUndo \in Seq(Undo) /\ Len(editorUndo) \in 0..Len(editorUndo) /\ Len(editorUndo) \in Nat
    BY DEF Inv
  <2>3. tr[Len(editorUndo)] \in Editor /\ Listed(tr[Len(editorUndo)])
    <3>1. CASE Len(editorUndo) = 0
      BY <2>1, <3>1 DEF Trail, Alike
    <3>2. CASE Len(editorUndo) # 0
      <4>1. Len(editorUndo) \in 1..Len(editorUndo)
        BY <2>2, <3>2
      <4>. QED
        BY <2>1, <4>1 DEF Trail, Alike
    <3>. QED
      BY <3>1, <3>2
  <2>4. client \in [Name -> Seq(Char)]
    BY <2>1, <2>3, ContentsType
  <2>. QED
    BY <2>4 DEF Inv, Sound, TypeOK
<1>. QED
  BY <1>1, AlwaysInv, PTL

\* editorbuffertable.c and renameEditorBuffer(): every open buffer is found under its
\* name and no other one is, and one that the server may close without asking has
\* the text of its file
THEOREM TableIsRight == Spec => []BuffersAreRight
<1>1. Inv => BuffersAreRight
  <2>. SUFFICES ASSUME Inv PROVE BuffersAreRight
    OBVIOUS
  <2>1. Listed(editor) /\ AsOpened(editor)
    BY DEF Inv, Sound
  <2>. QED
    BY <2>1 DEF BuffersAreRight, Listed, AsOpened, BufferOf
<1>. QED
  BY <1>1, AlwaysInv, PTL

\* renameEditorBuffer() frees the buffer that has the new name: no record of undo.c
\* points to it
THEOREM NoRecordDangles == Spec => []RecordsAreLive
<1>1. Inv => RecordsAreLive
  <2>. SUFFICES ASSUME Inv PROVE RecordsAreLive
    OBVIOUS
  <2>1. Live(editor, TouchedAfter(editorUndo, 0))
    BY TrailLives DEF Inv
  <2>2. Live(editor, TouchedAfter(redoTrack, 0))
    <3>1. CASE phase = "edit"
      BY <3>1, NoRecords DEF Inv, Live
    <3>2. CASE phase # "edit"
      BY <3>2, TrailLives DEF Inv
    <3>. QED
      BY <3>1, <3>2
  <2>3. ASSUME NEW us, Live(editor, TouchedAfter(us, 0)), NEW i \in 1..Len(us),
               NEW b \in 1..Len(editor.buffers), Touches(us[i], b)
        PROVE  editor.buffers[b].open
    <3>1. b \in Nat /\ i \in (0 + 1)..Len(us)
      OBVIOUS
    <3>. QED
      BY <2>3, <3>1 DEF Live, TouchedAfter
  <2>. QED
    BY <2>1, <2>2, <2>3 DEF RecordsAreLive
<1>. QED
  BY <1>1, AlwaysInv, PTL

\* applyWholeRefactoringFromUndo(): when everything is undone the server has the
\* client's texts, and after every round of the replay the client has the server's
THEOREM ClientIsFollowed == Spec => []ClientFollows
<1>1. Inv => ClientFollows
  <2>. SUFFICES ASSUME Inv, editorUndo = <<>> PROVE client = Contents(editor)
    BY DEF ClientFollows
  <2>. QED
    BY NothingLeft DEF Inv
<1>. QED
  BY <1>1, AlwaysInv, PTL

\* editorApplyUndos() on the records it has noted itself: the files in the end are
\* those that were edited
THEOREM EditsAreRepeated == Spec => []ReplayRepeats
<1>1. Inv => ReplayRepeats
  <2>. SUFFICES ASSUME Inv, phase = "replay", redoTrack = <<>>
                PROVE  Contents(editor) = Contents(edited)
    BY DEF ReplayRepeats
  <2>1. phase # "edit"
    OBVIOUS
  <2>. QED
    BY <2>1, NothingLeft DEF Inv
<1>. QED
  BY <1>1, AlwaysInv, PTL

\* replaceStringInEditorBuffer() and moveBlockInEditorBuffer(): no marker is left
\* outside its text
THEOREM MarkersAreInside == Spec => []MarkersInText
<1>1. Inv => MarkersInText
  BY DEF Inv, Sound, MarkersIn, MarkersInText
<1>. QED
  BY <1>1, AlwaysInv, PTL
=============================================================================
