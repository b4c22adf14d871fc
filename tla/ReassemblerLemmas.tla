------------------------- MODULE ReassemblerLemmas --------------------------
(***************************************************************************)
(* Lemmas about the StreamReassembler: what push_substring does, for every *)
(* capacity, every stream and every list of stored excerpts. The proof     *)
(* follows the code: the two binary searches of                            *)
(* BufferStringList::push_back, merge, pop_front, and the cutting of an    *)
(* excerpt to the window. Many lemmas take untyped parameters and one      *)
(* predicate that bundles their hypotheses; that is how the provers can    *)
(* use them.                                                               *)
(***************************************************************************)
EXTENDS StreamReassembler, SequenceTheorems, WellFoundedInduction, TLAPS

USE SMTT(180)

(* Nat is well founded, as a fact about sets: what the loops of the code   *)
(* find by counting up exists.                                             *)
LEMMA LeastElement ==
    ASSUME NEW T \in SUBSET Nat, T # {}
    PROVE  \E i \in T : \A j \in T : i <= j
  <1> DEFINE R == {ss \in Nat \X Nat : ss[1] < ss[2]}
  <1>1. IsWellFoundedOn(R, Nat)
    BY NatLessThanWellFounded DEF OpToRel
  <1>2. PICK i \in T : \A j \in T : <<j, i>> \notin R
    BY <1>1, WFMin, ZenonT(180)
  <1>3. \A j \in T : ~(j < i)
    BY <1>2, ZenonT(180)
  <1> QED
    BY <1>3

(* The bytes [from, to) of a stream whose byte at index i is i itself.     *)
Bytes(from, to) == [i \in 1 .. to - from |-> from + i - 1]

(* An excerpt is a sequence of to - from bytes. *)
LEMMA BytesType ==
    ASSUME NEW from \in Nat, NEW to \in Nat, from <= to
    PROVE  Bytes(from, to) \in Seq(Nat) /\ Len(Bytes(from, to)) = to - from
  BY DEF Bytes

(* An excerpt from a to a is empty. *)
LEMMA BytesEmpty ==
    ASSUME NEW a \in Nat
    PROVE  Bytes(a, a) = <<>>
  BY DEF Bytes

(* A part of an excerpt is the excerpt between its own limits: what        *)
(* string_view::substr and Buffer::remove_prefix return.                   *)
LEMMA BytesPart ==
    ASSUME NEW from \in Nat, NEW to \in Nat,
           NEW a \in Nat, NEW b \in Nat, from <= a, a <= b, b <= to
    PROVE  SubSeq(Bytes(from, to), a - from + 1, b - from) = Bytes(a, b)
  BY DEF Bytes

(* An excerpt cut to its own length is itself. *)
LEMMA BytesWhole ==
    ASSUME NEW from \in Nat, NEW to \in Nat, from <= to
    PROVE  SubSeq(Bytes(from, to), 1, to - from) = Bytes(from, to)
  BY DEF Bytes

(* An excerpt is cut after its first size bytes, at index at. *)
IsSplit(from, to, size, at) ==
    /\ SubSeq(Bytes(from, to), 1, size) = Bytes(from, at)
    /\ SubSeq(Bytes(from, to), size + 1, to - from) = Bytes(at, to)

(* Cutting an excerpt leaves two adjoining excerpts. *)
LEMMA BytesSplit ==
    ASSUME NEW from \in Nat, NEW to \in Nat, NEW size \in Nat, NEW at \in Nat,
           at = from + size, at < to
    PROVE  IsSplit(from, to, size, at)
  BY DEF Bytes, IsSplit

(* Two adjoining excerpts, appended, are one. *)
LEMMA BytesConcat ==
    ASSUME NEW a \in Nat, NEW b \in Nat, NEW c \in Nat, a <= b, b <= c
    PROVE  Bytes(a, b) \o Bytes(b, c) = Bytes(a, c)
  BY DEF Bytes

(* The four strings that BufferStringList::merge appends. *)
Joined(a, b, c, d) == a \o b \o c \o d

(* Three adjoining excerpts, one of the last two places empty, are one.    *)
LEMMA BytesJoin ==
    ASSUME NEW a \in Nat, NEW b \in Nat, NEW c \in Nat, NEW d \in Nat,
           a <= b, b <= c, c <= d,
           NEW p, NEW q,
           \/ p = <<>> /\ q = Bytes(c, d)
           \/ p = Bytes(c, d) /\ q = <<>>
    PROVE  Joined(Bytes(a, b), Bytes(b, c), p, q) = Bytes(a, d)
  <1>0. a <= c /\ a <= d
    OBVIOUS
  <1>1. Bytes(a, b) \o Bytes(b, c) = Bytes(a, c)
    BY BytesConcat, ZenonT(180)
  <1>2. Bytes(a, c) \o Bytes(c, d) = Bytes(a, d)
    BY <1>0, BytesConcat, ZenonT(180)
  <1>3. Bytes(a, c) \in Seq(Nat) /\ Bytes(a, d) \in Seq(Nat)
    BY <1>0, BytesType, ZenonT(180)
  <1>4. Bytes(a, c) \o <<>> = Bytes(a, c) /\ Bytes(a, d) \o <<>> = Bytes(a, d)
    BY <1>3, ConcatEmptySeq
  <1> QED
    BY <1>1, <1>2, <1>4, ZenonT(180) DEF Joined

-----------------------------------------------------------------------------
(* The list of stored excerpts (BufferStringList). *)

(* An element of the list has a first index, a second one that is not      *)
(* smaller, and a flag.                                                    *)
LEMMA ElementType ==
    ASSUME NEW list \in Seq(BufferStringRecord(Nat)), NEW i \in 1 .. Len(list)
    PROVE  /\ list[i] \in BufferStringRecord(Nat)
           /\ list[i].first \in Nat /\ list[i].str \in Seq(Nat) /\ Len(list[i].str) \in Nat
           /\ second(list[i]) \in Nat /\ list[i].first <= second(list[i])
           /\ list[i].eof \in BOOLEAN
  <1>1. list[i] \in BufferStringRecord(Nat)
    OBVIOUS
  <1>2. list[i].first \in Nat /\ list[i].str \in Seq(Nat) /\ list[i].eof \in BOOLEAN
    BY <1>1 DEF BufferStringRecord
  <1> QED
    BY <1>1, <1>2 DEF second

(* BufferStringList::lower_bound finds the first element that does not end *)
(* before key.                                                             *)
LEMMA LowerBound ==
    ASSUME NEW list \in Seq(BufferStringRecord(Nat)), NEW key \in Nat
    PROVE  LET i == lower_bound(list, key)
           IN  /\ i \in 1 .. Len(list) + 1
               /\ \A j \in 1 .. i - 1 : second(list[j]) < key
               /\ i <= Len(list) => second(list[i]) >= key
  <1> DEFINE T == {i \in 1 .. Len(list) + 1 : i <= Len(list) => second(list[i]) >= key}
  <1>1. Len(list) + 1 \in T /\ T \in SUBSET Nat
    OBVIOUS
  <1>2. PICK i \in T : \A j \in T : i <= j
    BY <1>1, LeastElement, ZenonT(180)
  <1>3. \A j \in 1 .. i - 1 : second(list[j]) < key
    <2> SUFFICES ASSUME NEW j \in 1 .. i - 1 PROVE second(list[j]) < key
      OBVIOUS
    <2>1. j \in 1 .. Len(list) /\ j \notin T
      BY <1>2
    <2>2. second(list[j]) \in Nat
      BY <2>1, ElementType
    <2> QED
      BY <2>1, <2>2
  <1> QED
    BY <1>2, <1>3 DEF lower_bound

(* BufferStringList::upper_bound finds the first element that starts after *)
(* key.                                                                    *)
LEMMA UpperBound ==
    ASSUME NEW list \in Seq(BufferStringRecord(Nat)), NEW key \in Nat
    PROVE  LET i == upper_bound(list, key)
           IN  /\ i \in 1 .. Len(list) + 1
               /\ \A j \in 1 .. i - 1 : list[j].first <= key
               /\ i <= Len(list) => list[i].first > key
  <1> DEFINE T == {i \in 1 .. Len(list) + 1 : i <= Len(list) => list[i].first > key}
  <1>1. Len(list) + 1 \in T /\ T \in SUBSET Nat
    OBVIOUS
  <1>2. PICK i \in T : \A j \in T : i <= j
    BY <1>1, LeastElement, ZenonT(180)
  <1>3. \A j \in 1 .. i - 1 : list[j].first <= key
    <2> SUFFICES ASSUME NEW j \in 1 .. i - 1 PROVE list[j].first <= key
      OBVIOUS
    <2>1. j \in 1 .. Len(list) /\ j \notin T
      BY <1>2
    <2>2. list[j].first \in Nat
      BY <2>1, ElementType
    <2> QED
      BY <2>1, <2>2
  <1> QED
    BY <1>2, <1>3, ZenonT(180) DEF upper_bound

-----------------------------------------------------------------------------
(* Inserting an excerpt: push_back. *)

(* An excerpt ends by the end of the stream, or is empty and lies beyond   *)
(* it: what a segment without data that follows the FIN makes.             *)
Inside(f, t, end) == t <= end \/ (f = t /\ end < f)

(* A stored excerpt starts in the window [top, edge], ends by far and      *)
(* inside the stream, holds the bytes of the stream, and carries eof only  *)
(* at its end.                                                             *)
Fits(b, top, edge, far, end) ==
    /\ b \in BufferStringRecord(Nat)
    /\ top <= b.first /\ b.first <= edge
    /\ second(b) <= far /\ Inside(b.first, second(b), end)
    /\ b.str = Bytes(b.first, second(b))
    /\ b.eof => second(b) = end

(* The excerpts are in ascending order and no two of them touch. *)
Ordered(list) ==
    \A i, j \in 1 .. Len(list) : i < j => second(list[i]) < list[j].first

(* What the list of a reassembler is at any time. *)
Stored(list, top, edge, far, end) ==
    /\ list \in Seq(BufferStringRecord(Nat))
    /\ Ordered(list)
    /\ \A i \in 1 .. Len(list) : Fits(list[i], top, edge, far, end)

(* Index k is held in the list. *)
Covers(list, k) ==
    \E i \in 1 .. Len(list) : list[i].first <= k /\ k < second(list[i])

(* Some stored excerpt carries the end of the stream. *)
Marked(list) == \E i \in 1 .. Len(list) : list[i].eof

(* The list with the elements lo to hi - 1 replaced by m: what the deque   *)
(* holds after push_back, whether it inserts or merges.                    *)
splice(list, lo, hi, m) == SubSeq(list, 1, lo - 1) \o <<m>> \o SubSeq(list, hi, Len(list))

(* The elements of new, which is list with lo .. hi - 1 replaced by m. *)
Spliced(new, S, list, lo, hi, m) ==
    /\ new \in Seq(S)
    /\ Len(new) = Len(list) + 1 + lo - hi
    /\ \A i \in 1 .. lo - 1 : new[i] = list[i]
    /\ new[lo] = m
    /\ \A i \in lo + 1 .. Len(new) : new[i] = list[i - 1 - lo + hi]

(* Where each element of the spliced list comes from. *)
LEMMA SpliceElements ==
    ASSUME NEW S, NEW list \in Seq(S), NEW m \in S,
           NEW lo \in 1 .. Len(list) + 1, NEW hi \in lo .. Len(list) + 1
    PROVE  Spliced(splice(list, lo, hi, m), S, list, lo, hi, m)
  <1> DEFINE front == SubSeq(list, 1, lo - 1)
             back == SubSeq(list, hi, Len(list))
  <1>1. /\ front \in Seq(S) /\ Len(front) = lo - 1
        /\ \A i \in 1 .. lo - 1 : front[i] = list[i]
    OBVIOUS
  <1>2. /\ back \in Seq(S) /\ Len(back) = Len(list) - hi + 1
        /\ \A i \in 1 .. Len(list) - hi + 1 : back[i] = list[hi + i - 1]
    OBVIOUS
  <1>3. <<m>> \in Seq(S) /\ Len(<<m>>) = 1 /\ <<m>>[1] = m
    OBVIOUS
  <1> DEFINE most == front \o <<m>>
  <1> HIDE DEF front, back
  <1>4. /\ most \in Seq(S) /\ Len(most) = lo
        /\ \A i \in 1 .. lo - 1 : most[i] = list[i]
        /\ most[lo] = m
    BY <1>1, <1>3
  <1> HIDE DEF most
  <1> DEFINE all == most \o back
  <1>5. /\ all \in Seq(S) /\ Len(all) = Len(most) + Len(back)
        /\ \A i \in 1 .. Len(most) + Len(back) :
              all[i] = IF i <= Len(most) THEN most[i] ELSE back[i - Len(most)]
    BY <1>2, <1>4, ConcatProperties, ZenonT(180)
  <1>6. splice(list, lo, hi, m) = all
    BY DEF splice, most, front, back
  <1> HIDE DEF all
  <1>7. \A i \in lo + 1 .. Len(all) : all[i] = list[i - 1 - lo + hi]
    <2> SUFFICES ASSUME NEW i \in lo + 1 .. Len(all) PROVE all[i] = list[i - 1 - lo + hi]
      BY ZenonT(180)
    <2>1. i - lo \in 1 .. Len(list) - hi + 1 /\ all[i] = back[i - lo]
      BY <1>2, <1>4, <1>5
    <2> QED
      BY <1>2, <2>1
  <1>8. Len(all) = Len(list) + 1 + lo - hi /\ \A i \in 1 .. lo : all[i] = most[i]
    <2>1. Len(list) \in Nat /\ Len(most) = lo /\ Len(back) = Len(list) - hi + 1
      BY <1>2, <1>4
    <2>2. Len(all) = Len(list) + 1 + lo - hi
      BY <1>5, <2>1
    <2>3. ASSUME NEW i \in 1 .. lo PROVE all[i] = most[i]
      BY <1>5, <2>1
    <2> QED
      BY <2>2, <2>3
  <1>9. (\A i \in 1 .. lo - 1 : all[i] = list[i]) /\ all[lo] = m
    BY <1>4, <1>8
  <1>10. Spliced(all, S, list, lo, hi, m)
    BY <1>5, <1>7, <1>8, <1>9, ZenonT(180) DEF Spliced
  <1> QED
    BY <1>6, <1>10, ZenonT(180)

(* The elements outside lo to hi - 1 do not touch m. *)
Clear(list, lo, hi, m) ==
    /\ lo \in 1 .. Len(list) + 1 /\ hi \in lo .. Len(list) + 1
    /\ \A i \in 1 .. lo - 1 : second(list[i]) < m.first
    /\ \A i \in hi .. Len(list) : second(m) < list[i].first

(* The spliced list holds all that m and the elements outside lo to hi - 1 *)
(* held.                                                                   *)
Inserted(new, list, lo, hi, m) ==
    \A k \in Nat :
        \/ m.first <= k /\ k < second(m)
        \/ \E i \in 1 .. Len(list) : /\ i \notin lo .. hi - 1
                                     /\ list[i].first <= k /\ k < second(list[i])
        => Covers(new, k)

(* Every element of the new list is m or was in the list. *)
Draws(new, list, m) ==
    \A i \in 1 .. Len(new) : new[i] = m \/ \E j \in 1 .. Len(list) : new[i] = list[j]

(* A spliced list draws on m and the list only. *)
LEMMA SpliceDraws ==
    ASSUME NEW top \in Nat, NEW edge \in Nat, NEW far \in Nat, NEW end \in Nat,
           NEW list, Stored(list, top, edge, far, end),
           NEW m, Fits(m, top, edge, far, end),
           NEW lo \in 1 .. Len(list) + 1, NEW hi \in lo .. Len(list) + 1
    PROVE  Draws(splice(list, lo, hi, m), list, m)
  <1> DEFINE new == splice(list, lo, hi, m)
  <1>0. list \in Seq(BufferStringRecord(Nat)) /\ m \in BufferStringRecord(Nat)
    BY DEF Stored, Fits
  <1>1. /\ new \in Seq(BufferStringRecord(Nat))
        /\ Len(new) = Len(list) + 1 + lo - hi
        /\ \A i \in 1 .. lo - 1 : new[i] = list[i]
        /\ new[lo] = m
        /\ \A i \in lo + 1 .. Len(new) : new[i] = list[i - 1 - lo + hi]
    <2>1. Spliced(new, BufferStringRecord(Nat), list, lo, hi, m)
      BY <1>0, SpliceElements
    <2> QED
      BY <2>1, ZenonT(180) DEF Spliced
  <1> HIDE DEF new
  <1>2. PICK n \in Nat : Len(list) = n
    BY <1>0
  <1>3. ASSUME NEW i \in 1 .. Len(new) PROVE new[i] = m \/ \E j \in 1 .. Len(list) : new[i] = list[j]
    <2>1. CASE i < lo
      BY <1>1, <1>2, <2>1
    <2>2. CASE i = lo
      BY <1>1, <2>2
    <2>3. CASE i > lo
      <3>1. i - 1 - lo + hi \in 1 .. Len(list) /\ new[i] = list[i - 1 - lo + hi]
        BY <1>1, <1>2, <2>3
      <3> QED
        BY <3>1
    <2> QED
      BY <2>1, <2>2, <2>3
  <1> QED
    BY <1>3 DEF Draws, new

(* An excerpt that touches none of the elements that stay can be spliced   *)
(* in: the list stays ordered and nothing outside is lost.                 *)
LEMMA SpliceKeeps ==
    ASSUME NEW top \in Nat, NEW edge \in Nat, NEW far \in Nat, NEW end \in Nat,
           NEW list, Stored(list, top, edge, far, end),
           NEW m, Fits(m, top, edge, far, end),
           NEW lo \in 1 .. Len(list) + 1, NEW hi \in lo .. Len(list) + 1,
           \A i \in 1 .. lo - 1 : second(list[i]) < m.first,
           \A i \in hi .. Len(list) : second(m) < list[i].first
    PROVE  LET new == splice(list, lo, hi, m)
           IN  Stored(new, top, edge, far, end) /\ new # <<>> /\ Inserted(new, list, lo, hi, m)
  <1> DEFINE new == splice(list, lo, hi, m)
  <1>0. list \in Seq(BufferStringRecord(Nat)) /\ m \in BufferStringRecord(Nat)
    BY DEF Stored, Fits
  <1>1. /\ new \in Seq(BufferStringRecord(Nat))
        /\ Len(new) = Len(list) + 1 + lo - hi
        /\ \A i \in 1 .. lo - 1 : new[i] = list[i]
        /\ new[lo] = m
        /\ \A i \in lo + 1 .. Len(new) : new[i] = list[i - 1 - lo + hi]
    <2>1. Spliced(new, BufferStringRecord(Nat), list, lo, hi, m)
      BY <1>0, SpliceElements
    <2> QED
      BY <2>1, ZenonT(180) DEF Spliced
  <1> HIDE DEF new
  <1>2. Len(list) \in Nat /\ Len(new) \in Nat
    BY <1>0, <1>1
  <1>3. \A i \in 1 .. Len(new) : Fits(new[i], top, edge, far, end)
    <2> SUFFICES ASSUME NEW i \in 1 .. Len(new) PROVE Fits(new[i], top, edge, far, end)
      OBVIOUS
    <2>1. CASE i < lo
      BY <1>1, <1>2, <2>1 DEF Stored
    <2>2. CASE i = lo
      BY <1>1, <2>2
    <2>3. CASE i > lo
      <3>1. i - 1 - lo + hi \in 1 .. Len(list) /\ new[i] = list[i - 1 - lo + hi]
        BY <1>1, <1>2, <2>3
      <3> QED
        BY <3>1 DEF Stored
    <2> QED
      BY <2>1, <2>2, <2>3
  <1>4. Ordered(new)
    <2> SUFFICES ASSUME NEW i \in 1 .. Len(new), NEW j \in 1 .. Len(new), i < j
                 PROVE  second(new[i]) < new[j].first
      BY DEF Ordered
    <2>1. Ordered(list)
      BY DEF Stored
    <2>2. CASE j < lo
      <3>1. /\ i \in 1 .. Len(list) /\ j \in 1 .. Len(list)
            /\ new[i] = list[i] /\ new[j] = list[j]
        BY <1>1, <1>2, <2>2
      <3> QED
        BY <2>1, <3>1 DEF Ordered
    <2>3. CASE j = lo
      BY <1>1, <1>2, <2>3
    <2>4. CASE j > lo
      <3> DEFINE jj == j - 1 - lo + hi
      <3>1. jj \in hi .. Len(list) /\ new[j] = list[jj]
        BY <1>1, <1>2, <2>4
      <3>2. CASE i < lo
        <4>1. i \in 1 .. Len(list) /\ jj \in 1 .. Len(list) /\ i < jj /\ new[i] = list[i]
          BY <1>1, <1>2, <3>1, <3>2
        <4> QED
          BY <2>1, <3>1, <4>1 DEF Ordered
      <3>3. CASE i = lo
        BY <1>1, <3>1, <3>3
      <3>4. CASE i > lo
        <4> DEFINE ii == i - 1 - lo + hi
        <4>1. ii \in 1 .. Len(list) /\ jj \in 1 .. Len(list) /\ ii < jj /\ new[i] = list[ii]
          BY <1>1, <1>2, <3>1, <3>4
        <4> QED
          BY <2>1, <3>1, <4>1, ZenonT(180) DEF Ordered
      <3> QED
        BY <3>2, <3>3, <3>4
    <2> QED
      BY <2>2, <2>3, <2>4
  <1>5. ASSUME NEW k \in Nat,
               \/ m.first <= k /\ k < second(m)
               \/ \E i \in 1 .. Len(list) : /\ i \notin lo .. hi - 1
                                            /\ list[i].first <= k /\ k < second(list[i])
        PROVE  Covers(new, k)
    <2>1. CASE m.first <= k /\ k < second(m)
      <3>1. lo \in 1 .. Len(new) /\ new[lo] = m
        BY <1>1, <1>2
      <3> QED
        BY <2>1, <3>1 DEF Covers
    <2>2. ASSUME NEW i \in 1 .. Len(list), i \notin lo .. hi - 1,
                 list[i].first <= k /\ k < second(list[i])
          PROVE  Covers(new, k)
      <3>1. CASE i < lo
        BY <1>1, <1>2, <2>2, <3>1 DEF Covers
      <3>2. CASE i >= hi
        <4>1. i + 1 + lo - hi \in lo + 1 .. Len(new) /\ new[i + 1 + lo - hi] = list[i]
          BY <1>1, <1>2, <3>2
        <4> QED
          BY <1>2, <2>2, <4>1 DEF Covers
      <3> QED
        BY <2>2, <3>1, <3>2
    <2> QED
      BY <1>5, <2>1, <2>2
  <1>6. new # <<>>
    BY <1>1, <1>2
  <1> QED
    BY <1>1, <1>3, <1>4, <1>5, <1>6 DEF Stored, Inserted, new

(* The two facts before as one about named lists. *)
LEMMA SpliceStored ==
    ASSUME NEW top \in Nat, NEW edge \in Nat, NEW far \in Nat, NEW end \in Nat,
           NEW list, Stored(list, top, edge, far, end),
           NEW m, Fits(m, top, edge, far, end),
           NEW lo \in Nat, NEW hi \in Nat, Clear(list, lo, hi, m),
           NEW new, new = splice(list, lo, hi, m)
    PROVE  /\ Stored(new, top, edge, far, end) /\ new # <<>>
           /\ Inserted(new, list, lo, hi, m) /\ Draws(new, list, m)
  <1>1. Stored(new, top, edge, far, end) /\ new # <<>> /\ Inserted(new, list, lo, hi, m)
    BY SpliceKeeps DEF Clear
  <1>3. lo \in 1 .. Len(list) + 1 /\ hi \in lo .. Len(list) + 1
    BY DEF Clear
  <1>4. Draws(new, list, m)
    BY <1>3, SpliceDraws
  <1> QED
    BY <1>1, <1>4

-----------------------------------------------------------------------------
(* Merging an excerpt with the elements it touches. *)

(* b is the excerpt of the stream from f to t. *)
Spans(b, f, t) ==
    b.first = f /\ second(b) = t /\ f <= t /\ b.str = Bytes(f, t)

(* Fits, with the limits of the excerpt named. *)
Within(b, f, t, top, edge, far, end) ==
    /\ Spans(b, f, t)
    /\ top <= f /\ f <= edge /\ t <= far /\ Inside(f, t, end)
    /\ b.eof => t = end

(* The BufferString of the excerpt from f to t. *)
BufferStringOf(f, t, e) == [first |-> f, str |-> Bytes(f, t), eof |-> e]

(* The part of an element that merge copies out is an excerpt of the       *)
(* stream.                                                                 *)
LEMMA ExcerptIsBytes ==
    ASSUME NEW b, NEW f \in Nat, NEW t \in Nat, b.first = f, b.str = Bytes(f, t),
           NEW from \in Nat, NEW to \in Nat, f <= from, from <= to, to <= t
    PROVE  excerpt(b, from, to) = Bytes(from, to)
  <1>1. SubSeq(Bytes(f, t), from - f + 1, to - f) = Bytes(from, to)
    BY BytesPart
  <1> QED
    BY <1>1 DEF excerpt

(* What merge prepends: the bytes of the leftmost touched element that     *)
(* precede the new excerpt.                                                *)
LEMMA LeftPart ==
    ASSUME NEW b, NEW bf \in Nat, NEW bs \in Nat, b.first = bf, b.str = Bytes(bf, bs),
           bf <= bs, NEW f \in Nat, f <= bs
    PROVE  LET left_index == IF b.first < f THEN b.first ELSE f
           IN  /\ left_index = Smaller(bf, f)
               /\ (IF f > left_index THEN excerpt(b, left_index, f) ELSE <<>>)
                    = Bytes(Smaller(bf, f), f)
  <1>1. CASE bf < f
    <2>1. excerpt(b, bf, f) = Bytes(bf, f)
      BY <1>1, ExcerptIsBytes
    <2> QED
      BY <1>1, <2>1 DEF Smaller
  <1>2. CASE ~(bf < f)
    BY <1>2, BytesEmpty DEF Smaller
  <1> QED
    BY <1>1, <1>2

(* What merge appends: the bytes of the rightmost touched element that     *)
(* follow the new excerpt.                                                 *)
LEMMA RightPart ==
    ASSUME NEW b, NEW bf \in Nat, NEW bs \in Nat, b.first = bf, b.str = Bytes(bf, bs),
           bf <= bs, NEW t \in Nat, bf <= t
    PROVE  (IF bs > t THEN excerpt(b, t, bs) ELSE <<>>) = Bytes(t, Larger(bs, t))
  <1>1. CASE bs > t
    <2>1. excerpt(b, t, bs) = Bytes(t, bs)
      BY <1>1, ExcerptIsBytes
    <2> QED
      BY <1>1, <2>1 DEF Larger
  <1>2. CASE ~(bs > t)
    BY <1>2, BytesEmpty DEF Larger
  <1> QED
    BY <1>1, <1>2

(* The elements lo to hi - 1 are those that the new excerpt, from f to t,  *)
(* overlaps or adjoins; left and right are the first and the last of them. *)
Touches(list, n, lo, hi, buffer, f, t, left, lf, ls, right, rf, rs) ==
    /\ Len(list) = n /\ lo \in 1 .. n /\ hi \in lo + 1 .. n + 1
    /\ Spans(buffer, f, t)
    /\ left = list[lo] /\ Spans(left, lf, ls) /\ f <= ls
    /\ right = list[hi - 1] /\ Spans(right, rf, rs) /\ rf <= t
    /\ \A i \in lo .. hi - 2 : second(list[i]) \in Nat /\ second(list[i]) <= t

(* merge returns the excerpt from the smaller of the left limits to the    *)
(* larger of the right ones: no byte twice, none missing, none out of      *)
(* place.                                                                  *)
LEMMA MergedBytes ==
    ASSUME NEW list, NEW n \in Nat, NEW lo \in Nat, NEW hi \in Nat,
           NEW buffer, NEW f \in Nat, NEW t \in Nat,
           NEW left, NEW lf \in Nat, NEW ls \in Nat,
           NEW right, NEW rf \in Nat, NEW rs \in Nat,
           Touches(list, n, lo, hi, buffer, f, t, left, lf, ls, right, rf, rs)
    PROVE  merged(list, lo, hi, buffer) =
              BufferStringOf(Smaller(lf, f), Larger(rs, t),
                             buffer.eof \/ (hi = n + 1 /\ right.eof))
  <1> DEFINE is_list_end == hi = Len(list) + 1
             upper_right == IF is_list_end THEN hi - 1 ELSE hi
             left_index == IF list[lo].first < buffer.first THEN list[lo].first ELSE buffer.first
             right_index == IF is_list_end THEN Larger(second(list[upper_right]), second(buffer))
                            ELSE second(buffer)
             longer == {i \in lo .. upper_right - 1 : second(list[i]) > right_index}
             part1 == IF buffer.first > left_index
                      THEN excerpt(list[lo], left_index, buffer.first) ELSE <<>>
             part3 == IF longer # {}
                      THEN LET b == list[CHOOSE i \in longer : TRUE]
                           IN  excerpt(b, right_index, second(b))
                      ELSE <<>>
             part4 == IF is_list_end /\ second(buffer) < right_index
                      THEN excerpt(list[upper_right], second(buffer), right_index) ELSE <<>>
  <1>0. /\ f <= t /\ buffer.first = f /\ second(buffer) = t /\ buffer.str = Bytes(f, t)
        /\ lf <= ls /\ left.first = lf /\ left.str = Bytes(lf, ls)
        /\ rf <= rs /\ right.first = rf /\ right.str = Bytes(rf, rs) /\ second(right) = rs
        /\ Len(list) = n /\ lo \in 1 .. n /\ hi \in lo + 1 .. n + 1
        /\ left = list[lo] /\ f <= ls /\ right = list[hi - 1] /\ rf <= t
        /\ \A i \in lo .. hi - 2 : second(list[i]) \in Nat /\ second(list[i]) <= t
    BY DEF Spans, Touches
  <1>1. left_index = Smaller(lf, f) /\ part1 = Bytes(Smaller(lf, f), f)
    BY <1>0, LeftPart
  <1>2. PICK l \in Nat, r \in Nat :
           /\ l = Smaller(lf, f) /\ l <= f
           /\ r = Larger(rs, t) /\ t <= r
    BY DEF Smaller, Larger
  <1>3. (IF rs > t THEN excerpt(right, t, rs) ELSE <<>>) = Bytes(t, r)
    BY <1>0, <1>2, RightPart
  <1>4. \/ part3 = <<>> /\ part4 = Bytes(t, r)
        \/ part3 = Bytes(t, r) /\ part4 = <<>>
    <2>1. CASE hi = n + 1
      <3>1. upper_right = hi - 1 /\ list[upper_right] = right /\ right_index = r
        BY <1>0, <1>2, <2>1
      <3>2. longer = {}
        <4> SUFFICES ASSUME NEW i \in longer PROVE FALSE
          OBVIOUS
        <4>1. i \in lo .. hi - 2 /\ second(list[i]) > r
          BY <3>1
        <4> QED
          BY <1>0, <1>2, <4>1
      <3>3. part3 = <<>>
        BY <3>2
      <3>4. part4 = IF t < r THEN excerpt(right, t, r) ELSE <<>>
        BY <1>0, <2>1, <3>1
      <3>5. t < r <=> rs > t
        BY <1>2 DEF Larger
      <3>6. rs > t => r = rs
        BY <1>2 DEF Larger
      <3> HIDE DEF part3, part4
      <3> QED
        BY <1>3, <3>3, <3>4, <3>5, <3>6
    <2>2. CASE hi # n + 1
      <3>1. upper_right = hi /\ right_index = t
        BY <1>0, <2>2
      <3>2. part4 = <<>>
        BY <1>0, <2>2
      <3>3. longer = IF rs > t THEN {hi - 1} ELSE {}
        <4>1. ASSUME NEW i \in longer PROVE i = hi - 1 /\ rs > t
          <5>1. i \in lo .. hi - 1 /\ second(list[i]) > t
            BY <3>1
          <5>2. i = hi - 1
            <6> SUFFICES ASSUME i # hi - 1 PROVE FALSE
              OBVIOUS
            <6>1. i \in lo .. hi - 2
              BY <5>1
            <6> QED
              BY <1>0, <5>1, <6>1
          <5> QED
            BY <1>0, <5>1, <5>2
        <4>2. ASSUME rs > t PROVE hi - 1 \in longer
          BY <1>0, <3>1, <4>2
        <4> HIDE DEF longer
        <4> QED
          BY <4>1, <4>2
      <3> HIDE DEF longer
      <3>4. part3 = Bytes(t, r)
        <4>1. CASE rs > t
          <5>1. (CHOOSE i \in longer : TRUE) = hi - 1 /\ longer # {}
            BY <3>3, <4>1
          <5>2. part3 = excerpt(right, t, rs)
            BY <1>0, <3>1, <5>1, ZenonT(180)
          <5> QED
            BY <1>3, <4>1, <5>2
        <4>2. CASE ~(rs > t)
          BY <1>3, <3>3, <4>2
        <4> QED
          BY <4>1, <4>2
      <3> QED
        BY <3>2, <3>4
    <2> QED
      BY <2>1, <2>2
  <1>5. part1 = Bytes(l, f) /\ left_index = l
    BY <1>1, <1>2
  <1>6. merged(list, lo, hi, buffer) =
           [first |-> left_index, str |-> part1 \o buffer.str \o part3 \o part4,
            eof |-> buffer.eof \/ (is_list_end /\ list[upper_right].eof)]
    BY DEF merged
  <1>7. (is_list_end /\ list[upper_right].eof) <=> (hi = n + 1 /\ right.eof)
    BY <1>0
  <1> HIDE DEF part1, part3, part4, left_index
  <1>8. part1 \o buffer.str \o part3 \o part4 = Bytes(l, r)
    <2>1. l <= f /\ f <= t /\ t <= r
      BY <1>0, <1>2
    <2>2. Joined(Bytes(l, f), Bytes(f, t), part3, part4) = Bytes(l, r)
      BY <1>4, <2>1, BytesJoin
    <2> QED
      BY <1>0, <1>5, <2>2 DEF Joined
  <1> QED
    BY <1>2, <1>5, <1>6, <1>7, <1>8 DEF BufferStringOf

(* A stored excerpt has limits. *)
LEMMA FitsParts ==
    ASSUME NEW top \in Nat, NEW edge \in Nat, NEW far \in Nat, NEW end \in Nat,
           NEW b, Fits(b, top, edge, far, end)
    PROVE  \E f, t \in Nat : Within(b, f, t, top, edge, far, end)
  <1>1. b.first \in Nat /\ Len(b.str) \in Nat
    BY DEF Fits, BufferStringRecord
  <1>2. second(b) \in Nat /\ b.first <= second(b)
    BY <1>1 DEF second
  <1>3. Within(b, b.first, second(b), top, edge, far, end)
    BY <1>1, <1>2 DEF Fits, Spans, Within
  <1> QED
    BY <1>1, <1>2, <1>3

(* An excerpt of the stream within the limits fits. *)
LEMMA FitsIf ==
    ASSUME NEW top \in Nat, NEW edge \in Nat, NEW far \in Nat, NEW end \in Nat,
           NEW f \in Nat, NEW t \in Nat, NEW e \in BOOLEAN,
           f <= t, top <= f, f <= edge, t <= far, Inside(f, t, end), e => t = end
    PROVE  Fits(BufferStringOf(f, t, e), top, edge, far, end) /\ Spans(BufferStringOf(f, t, e), f, t)
  <1> DEFINE b == BufferStringOf(f, t, e)
  <1>1. Bytes(f, t) \in Seq(Nat) /\ Len(Bytes(f, t)) = t - f
    BY BytesType
  <1>2. b.first = f /\ b.str = Bytes(f, t) /\ b.eof = e
    BY DEF BufferStringOf
  <1>3. b \in BufferStringRecord(Nat)
    BY <1>1 DEF BufferStringRecord, BufferStringOf
  <1>4. second(b) = t
    BY <1>1, <1>2 DEF second
  <1> HIDE DEF b
  <1>5. Fits(b, top, edge, far, end) /\ Spans(b, f, t)
    BY <1>2, <1>3, <1>4 DEF Fits, Spans
  <1> QED
    BY <1>5 DEF b

(* The new excerpt and the outermost touched elements fit.                 *)
AllWithin(buffer, f, t, left, lf, ls, right, rf, rs, top, edge, far, end) ==
    /\ Within(buffer, f, t, top, edge, far, end)
    /\ Within(left, lf, ls, top, edge, far, end)
    /\ Within(right, rf, rs, top, edge, far, end)
    /\ lf <= rf

(* A merged excerpt takes its eof from one of its parts. *)
EofFrom(m, buffer, right) == m.eof => buffer.eof \/ right.eof

(* What merge returns fits where its parts fitted. *)
LEMMA MergedFits ==
    ASSUME NEW top \in Nat, NEW edge \in Nat, NEW far \in Nat, NEW end \in Nat,
           NEW list, NEW n \in Nat, NEW lo \in Nat, NEW hi \in Nat,
           NEW buffer, NEW f \in Nat, NEW t \in Nat,
           NEW left, NEW lf \in Nat, NEW ls \in Nat,
           NEW right, NEW rf \in Nat, NEW rs \in Nat,
           Touches(list, n, lo, hi, buffer, f, t, left, lf, ls, right, rf, rs),
           AllWithin(buffer, f, t, left, lf, ls, right, rf, rs, top, edge, far, end)
    PROVE  /\ Fits(merged(list, lo, hi, buffer), top, edge, far, end)
           /\ Spans(merged(list, lo, hi, buffer), Smaller(lf, f), Larger(rs, t))
           /\ EofFrom(merged(list, lo, hi, buffer), buffer, right)
  <1> DEFINE e == buffer.eof \/ (hi = n + 1 /\ right.eof)
             m == merged(list, lo, hi, buffer)
  <1>0. /\ Within(buffer, f, t, top, edge, far, end)
        /\ Within(left, lf, ls, top, edge, far, end)
        /\ Within(right, rf, rs, top, edge, far, end)
        /\ lf <= rf /\ f <= ls /\ rf <= t
    BY DEF AllWithin, Touches
  <1>1. PICK l \in Nat, r \in Nat : l = Smaller(lf, f) /\ r = Larger(rs, t)
    BY DEF Smaller, Larger
  <1>2. m = BufferStringOf(l, r, e)
    BY <1>1, MergedBytes
  <1>3. /\ top <= lf /\ lf <= edge /\ top <= f /\ f <= edge /\ f <= t
        /\ lf <= ls /\ rf <= rs /\ rs <= far /\ t <= far
    BY <1>0 DEF Within, Spans
  <1>31. Inside(f, t, end) /\ Inside(lf, ls, end) /\ Inside(rf, rs, end)
    BY <1>0 DEF Within
  <1>4. l <= r /\ top <= l /\ l <= edge /\ r <= far
    BY <1>1, <1>3 DEF Smaller, Larger
  <1>41. Inside(l, r, end) /\ (t = end => r = end) /\ (rs = end => r = end)
    BY <1>0, <1>1, <1>3, <1>31 DEF Smaller, Larger, Inside
  <1>5. e \in BOOLEAN
    OBVIOUS
  <1>6. e => r = end
    BY <1>0, <1>41 DEF Within
  <1> HIDE DEF e, m
  <1>7. Fits(BufferStringOf(l, r, e), top, edge, far, end) /\ Spans(BufferStringOf(l, r, e), l, r)
    BY <1>4, <1>41, <1>5, <1>6, FitsIf, ZenonT(180)
  <1>8. Fits(m, top, edge, far, end) /\ Spans(m, l, r)
    BY <1>2, <1>7
  <1>9. m.eof = e
    BY <1>2 DEF BufferStringOf
  <1>10. EofFrom(m, buffer, right)
    BY <1>9, ZenonT(180) DEF e, EofFrom
  <1> QED
    BY <1>1, <1>8, <1>10 DEF m

(* F and S give the limits of the n elements of the list. *)
Limits(list, n, F, S) ==
    /\ Len(list) = n
    /\ \A i \in 1 .. n : F[i] \in Nat /\ S[i] \in Nat
    /\ \A i \in 1 .. n : F[i] = list[i].first /\ S[i] = second(list[i])
    /\ \A i \in 1 .. n : F[i] <= S[i]
    /\ \A i, j \in 1 .. n : i < j => S[i] < F[j]

(* A stored list has limits in strictly ascending order. *)
LEMMA LimitsExist ==
    ASSUME NEW top \in Nat, NEW edge \in Nat, NEW far \in Nat, NEW end \in Nat,
           NEW list, Stored(list, top, edge, far, end)
    PROVE  \E n \in Nat : \E F, S : Limits(list, n, F, S)
  <1>1. list \in Seq(BufferStringRecord(Nat)) /\ Ordered(list)
    BY DEF Stored
  <1>2. PICK n \in Nat : n = Len(list)
    BY <1>1
  <1> DEFINE F == [i \in 1 .. n |-> list[i].first]
             S == [i \in 1 .. n |-> second(list[i])]
  <1>3. \A i \in 1 .. n : list[i].first \in Nat /\ second(list[i]) \in Nat /\ list[i].first <= second(list[i])
    BY <1>1, <1>2, ElementType
  <1>4. \A i \in 1 .. n : F[i] \in Nat /\ S[i] \in Nat
    BY <1>3
  <1>5. \A i \in 1 .. n : F[i] = list[i].first /\ S[i] = second(list[i])
    OBVIOUS
  <1> HIDE DEF F, S
  <1>6. \A i \in 1 .. n : F[i] <= S[i]
    BY <1>3, <1>5
  <1>7. \A i, j \in 1 .. n : i < j => S[i] < F[j]
    BY <1>1, <1>2, <1>5 DEF Ordered
  <1>8. Limits(list, n, F, S)
    BY <1>2, <1>4, <1>5, <1>6, <1>7 DEF Limits
  <1> QED
    BY <1>4, <1>8

(* What the two binary searches of push_back return for an excerpt from f  *)
(* to t.                                                                   *)
Found(n, F, S, f, t, lo, hi) ==
    /\ lo \in 1 .. n + 1 /\ hi \in lo .. n + 1
    /\ \A j \in 1 .. lo - 1 : S[j] < f
    /\ \A j \in lo .. n : S[j] >= f
    /\ \A j \in 1 .. hi - 1 : F[j] <= t
    /\ \A j \in hi .. n : F[j] > t

(* The binary searches of push_back find the touched elements, since the   *)
(* list is ordered.                                                        *)
LEMMA Searches ==
    ASSUME NEW list \in Seq(BufferStringRecord(Nat)), NEW n \in Nat,
           NEW F, NEW S, Limits(list, n, F, S),
           NEW f \in Nat, NEW t \in Nat, f <= t
    PROVE  \E lo, hi \in Nat :
              lo = lower_bound(list, f) /\ hi = upper_bound(list, t) /\ Found(n, F, S, f, t, lo, hi)
  <1>1. /\ Len(list) = n
        /\ \A i \in 1 .. n : F[i] = list[i].first /\ S[i] = second(list[i])
    BY DEF Limits
  <1>2. /\ \A i \in 1 .. n : F[i] \in Nat /\ S[i] \in Nat /\ F[i] <= S[i]
        /\ \A i, j \in 1 .. n : i < j => S[i] < F[j]
    BY DEF Limits
  <1>3. PICK lo \in 1 .. n + 1 :
           /\ lo = lower_bound(list, f)
           /\ \A j \in 1 .. lo - 1 : second(list[j]) < f
           /\ lo <= n => second(list[lo]) >= f
    BY <1>1, LowerBound, ZenonT(180)
  <1>4. PICK hi \in 1 .. n + 1 :
           /\ hi = upper_bound(list, t)
           /\ \A j \in 1 .. hi - 1 : list[j].first <= t
           /\ hi <= n => list[hi].first > t
    BY <1>1, UpperBound, ZenonT(180)
  <1>5. \A j \in 1 .. lo - 1 : S[j] < f
    BY <1>1, <1>3
  <1>6. \A j \in 1 .. hi - 1 : F[j] <= t
    BY <1>1, <1>4
  <1>7. lo <= n => S[lo] >= f
    BY <1>1, <1>3
  <1>8. hi <= n => F[hi] > t
    BY <1>1, <1>4
  <1>9. lo <= hi
    <2> SUFFICES ASSUME hi < lo PROVE FALSE
      OBVIOUS
    <2>1. hi \in 1 .. n /\ hi \in 1 .. lo - 1
      OBVIOUS
    <2>2. S[hi] < f /\ F[hi] > t /\ F[hi] <= S[hi] /\ S[hi] \in Nat /\ F[hi] \in Nat
      BY <1>2, <1>5, <1>8, <2>1
    <2> QED
      BY <2>2
  <1>10. ASSUME NEW j \in lo .. n PROVE S[j] >= f
    <2>1. CASE j = lo
      BY <1>7, <2>1
    <2>2. CASE j # lo
      <3>1. lo \in 1 .. n /\ j \in 1 .. n /\ lo < j
        BY <2>2
      <3>2. S[lo] < F[j] /\ F[j] <= S[j] /\ S[lo] >= f
        BY <1>2, <1>7, <3>1
      <3> QED
        BY <1>2, <3>1, <3>2
    <2> QED
      BY <2>1, <2>2
  <1>11. ASSUME NEW j \in hi .. n PROVE F[j] > t
    <2>1. CASE j = hi
      BY <1>8, <2>1
    <2>2. CASE j # hi
      <3>1. hi \in 1 .. n /\ j \in 1 .. n /\ hi < j
        BY <2>2
      <3>2. S[hi] < F[j] /\ F[hi] <= S[hi] /\ F[hi] > t
        BY <1>2, <1>8, <3>1
      <3> QED
        BY <1>2, <3>1, <3>2
    <2> QED
      BY <2>1, <2>2
  <1>12. Found(n, F, S, f, t, lo, hi)
    BY <1>5, <1>6, <1>9, <1>10, <1>11 DEF Found
  <1> QED
    BY <1>3, <1>4, <1>12

(* An excerpt from l to r takes the place of the elements lo to hi - 1: it *)
(* contains them and touches no other.                                     *)
Replaces(n, F, S, l, r, lo, hi) ==
    /\ \A i \in 1 .. lo - 1 : S[i] < l
    /\ \A i \in lo .. hi - 1 : l <= F[i] /\ S[i] <= r
    /\ \A i \in hi .. n : r < F[i]

(* The merged excerpt m holds nothing but the pushed bytes and bytes that  *)
(* were in the list, and ends the stream only if one of them did.          *)
Only(list, buffer, f, t, m, l, r) ==
    /\ \A k \in Nat : l <= k /\ k < r => (f <= k /\ k < t) \/ Covers(list, k)
    /\ m.eof => buffer.eof \/ Marked(list)

(* merge returns an excerpt that contains the pushed one and all that it   *)
(* touches, touches nothing else and invents nothing.                      *)
LEMMA MergeStored ==
    ASSUME NEW top \in Nat, NEW edge \in Nat, NEW far \in Nat, NEW end \in Nat,
           NEW list, Stored(list, top, edge, far, end),
           NEW n \in Nat, NEW F, NEW S, Limits(list, n, F, S),
           NEW buffer, NEW f \in Nat, NEW t \in Nat, Within(buffer, f, t, top, edge, far, end),
           NEW lo \in Nat, NEW hi \in Nat, Found(n, F, S, f, t, lo, hi), lo < hi
    PROVE  \E l \in Nat, r \in Nat :
              /\ Fits(merged(list, lo, hi, buffer), top, edge, far, end)
              /\ Spans(merged(list, lo, hi, buffer), l, r)
              /\ Only(list, buffer, f, t, merged(list, lo, hi, buffer), l, r)
              /\ l <= f /\ t <= r /\ Replaces(n, F, S, l, r, lo, hi)
  <1>0. /\ lo \in 1 .. n /\ hi \in lo + 1 .. n + 1
        /\ \A j \in 1 .. lo - 1 : S[j] < f
        /\ \A j \in lo .. n : S[j] >= f
        /\ \A j \in 1 .. hi - 1 : F[j] <= t
        /\ \A j \in hi .. n : F[j] > t
    BY DEF Found
  <1>1. /\ Len(list) = n
        /\ \A i \in 1 .. n : F[i] = list[i].first /\ S[i] = second(list[i])
    BY DEF Limits
  <1>2. /\ \A i \in 1 .. n : F[i] \in Nat /\ S[i] \in Nat /\ F[i] <= S[i]
        /\ \A i, j \in 1 .. n : i < j => S[i] < F[j]
    BY DEF Limits
  <1>3. PICK left, right : left = list[lo] /\ right = list[hi - 1]
    OBVIOUS
  <1>4. lo \in 1 .. n /\ hi - 1 \in 1 .. n /\ lo \in Nat /\ hi \in Nat
    BY <1>0
  <1>5. Fits(left, top, edge, far, end) /\ Fits(right, top, edge, far, end)
    BY <1>1, <1>3, <1>4 DEF Stored
  <1>6. PICK lf \in Nat, ls \in Nat : Within(left, lf, ls, top, edge, far, end)
    BY <1>5, FitsParts
  <1>7. PICK rf \in Nat, rs \in Nat : Within(right, rf, rs, top, edge, far, end)
    BY <1>5, FitsParts
  <1>8. left.first = lf /\ second(left) = ls /\ right.first = rf /\ second(right) = rs
    BY <1>6, <1>7 DEF Within, Spans
  <1>9. F[lo] = lf /\ S[lo] = ls /\ F[hi - 1] = rf /\ S[hi - 1] = rs
    BY <1>1, <1>3, <1>4, <1>8
  <1>10. f <= ls /\ rf <= t
    BY <1>0, <1>4, <1>9
  <1>11. Spans(buffer, f, t) /\ Spans(left, lf, ls) /\ Spans(right, rf, rs)
    BY <1>6, <1>7 DEF Within
  <1>12. ASSUME NEW i \in lo .. hi - 2 PROVE second(list[i]) \in Nat /\ second(list[i]) <= t
    <2>1. i \in 1 .. n /\ i < hi - 1
      BY <1>0
    <2>2. S[i] < F[hi - 1] /\ F[hi - 1] <= t /\ S[i] \in Nat
      BY <1>0, <1>2, <1>4, <2>1
    <2>3. S[i] = second(list[i])
      BY <1>1, <2>1
    <2> QED
      BY <1>2, <1>4, <2>2, <2>3
  <1>13. Touches(list, n, lo, hi, buffer, f, t, left, lf, ls, right, rf, rs)
    BY <1>0, <1>1, <1>3, <1>10, <1>11, <1>12 DEF Touches
  <1>14. PICK l \in Nat, r \in Nat :
            /\ l = Smaller(lf, f) /\ r = Larger(rs, t)
            /\ l <= f /\ t <= r /\ l <= lf /\ rs <= r
            /\ (l = lf \/ l = f) /\ (r = rs \/ r = t)
    BY DEF Smaller, Larger
  <1>141. AllWithin(buffer, f, t, left, lf, ls, right, rf, rs, top, edge, far, end)
    <2>1. lf <= rf
      <3>1. lo = hi - 1 \/ lo < hi - 1
        BY <1>0
      <3>2. S[lo] \in Nat /\ F[lo] \in Nat /\ F[lo] <= S[lo] /\ (lo < hi - 1 => S[lo] < F[hi - 1])
        BY <1>2, <1>4
      <3> QED
        BY <1>9, <3>1, <3>2
    <2> QED
      BY <1>6, <1>7, <2>1 DEF AllWithin
  <1>142. /\ Fits(merged(list, lo, hi, buffer), top, edge, far, end)
          /\ Spans(merged(list, lo, hi, buffer), Smaller(lf, f), Larger(rs, t))
          /\ EofFrom(merged(list, lo, hi, buffer), buffer, right)
    BY <1>13, <1>141, MergedFits, ZenonT(180)
  <1>15. Spans(merged(list, lo, hi, buffer), l, r)
    BY <1>14, <1>142
  <1>16. ASSUME NEW i \in 1 .. lo - 1 PROVE S[i] < l
    <2>1. i \in 1 .. n /\ i < lo
      BY <1>0
    <2>2. S[i] < f /\ S[i] < F[lo]
      BY <1>0, <1>2, <1>4, <2>1
    <2> QED
      BY <1>9, <1>14, <2>2
  <1>17. ASSUME NEW i \in lo .. hi - 1 PROVE l <= F[i]
    <2>1. i \in 1 .. n
      BY <1>0
    <2>2. CASE i = lo
      BY <1>9, <1>14, <2>2
    <2>3. CASE i # lo
      <3>1. lo < i
        BY <1>0, <2>3
      <3>2. ls < F[i] /\ lf <= ls /\ F[i] \in Nat
        BY <1>2, <1>4, <1>9, <2>1, <3>1
      <3> QED
        BY <1>14, <3>2
    <2> QED
      BY <2>2, <2>3
  <1>18. ASSUME NEW i \in lo .. hi - 1 PROVE S[i] <= r
    <2>1. i \in 1 .. n
      BY <1>0
    <2>2. CASE i = hi - 1
      BY <1>9, <1>14, <2>2
    <2>3. CASE i # hi - 1
      <3>1. i < hi - 1
        BY <1>0, <2>3
      <3>2. S[i] < rf /\ rf <= rs /\ S[i] \in Nat
        BY <1>2, <1>4, <1>9, <2>1, <3>1
      <3> QED
        BY <1>14, <3>2
    <2> QED
      BY <2>2, <2>3
  <1>19. ASSUME NEW i \in hi .. n PROVE r < F[i]
    <2>1. i \in 1 .. n /\ hi - 1 < i
      BY <1>0
    <2>2. S[hi - 1] < F[i] /\ t < F[i]
      BY <1>0, <1>2, <1>4, <2>1
    <2> QED
      BY <1>9, <1>14, <2>2
  <1>20. Replaces(n, F, S, l, r, lo, hi)
    BY <1>16, <1>17, <1>18, <1>19 DEF Replaces
  <1>21. ASSUME NEW k \in Nat, l <= k, k < r, ~(f <= k /\ k < t)
         PROVE  Covers(list, k)
    <2>1. CASE k < f
      <3>1. lf <= k /\ k < ls
        BY <1>10, <1>14, <1>21, <2>1
      <3>2. list[lo].first <= k /\ k < second(list[lo])
        BY <1>3, <1>8, <3>1
      <3> QED
        BY <1>1, <1>4, <3>2 DEF Covers
    <2>2. CASE k >= t
      <3>1. rf <= k /\ k < rs
        BY <1>10, <1>14, <1>21, <2>2
      <3>2. list[hi - 1].first <= k /\ k < second(list[hi - 1])
        BY <1>3, <1>8, <3>1
      <3> QED
        BY <1>1, <1>4, <3>2 DEF Covers
    <2> QED
      BY <1>21, <2>1, <2>2
  <1>22. right.eof => Marked(list)
    BY <1>1, <1>3, <1>4 DEF Marked
  <1>23. Only(list, buffer, f, t, merged(list, lo, hi, buffer), l, r)
    BY <1>142, <1>21, <1>22 DEF Only, EofFrom
  <1> QED
    BY <1>14, <1>142, <1>15, <1>20, <1>23

(* The new list holds the pushed bytes and all that the list held. *)
Keeps(new, list, f, t) ==
    \A k \in Nat : (f <= k /\ k < t) \/ Covers(list, k) => Covers(new, k)

(* The new list holds nothing else, and knows the end of the stream only   *)
(* from the list or from the pushed excerpt.                               *)
Adds(new, list, buffer, f, t) ==
    /\ \A k \in Nat : Covers(new, k) => (f <= k /\ k < t) \/ Covers(list, k)
    /\ Marked(new) => buffer.eof \/ Marked(list)

(* A list that draws on a merged excerpt and the old list adds nothing     *)
(* else.                                                                   *)
LEMMA DrawsAdds ==
    ASSUME NEW new, NEW list, NEW buffer, NEW f \in Nat, NEW t \in Nat,
           NEW m, NEW l \in Nat, NEW r \in Nat, m.first = l, second(m) = r,
           Draws(new, list, m), Only(list, buffer, f, t, m, l, r)
    PROVE  Adds(new, list, buffer, f, t)
  <1>1. ASSUME NEW k \in Nat, Covers(new, k)
        PROVE  (f <= k /\ k < t) \/ Covers(list, k)
    <2>1. PICK i \in 1 .. Len(new) : new[i].first <= k /\ k < second(new[i])
      BY <1>1 DEF Covers
    <2>2. CASE new[i] = m
      BY <2>1, <2>2 DEF Only
    <2>3. CASE \E j \in 1 .. Len(list) : new[i] = list[j]
      BY <2>1, <2>3 DEF Covers
    <2> QED
      BY <2>2, <2>3 DEF Draws
  <1>2. ASSUME Marked(new) PROVE buffer.eof \/ Marked(list)
    <2>1. PICK i \in 1 .. Len(new) : new[i].eof
      BY <1>2 DEF Marked
    <2>2. CASE new[i] = m
      BY <2>1, <2>2 DEF Only
    <2>3. CASE \E j \in 1 .. Len(list) : new[i] = list[j]
      BY <2>1, <2>3 DEF Marked
    <2> QED
      BY <2>2, <2>3 DEF Draws
  <1> QED
    BY <1>1, <1>2 DEF Adds

(* BufferStringList::push_back: the list stays ordered with gaps, every    *)
(* excerpt holds its bytes of the stream, nothing that was held is lost,   *)
(* and nothing else is added.                                              *)
LEMMA PushBackStored ==
    ASSUME NEW top \in Nat, NEW edge \in Nat, NEW far \in Nat, NEW end \in Nat,
           NEW list, Stored(list, top, edge, far, end),
           NEW buffer, NEW f \in Nat, NEW t \in Nat,
           Fits(buffer, top, edge, far, end), Within(buffer, f, t, top, edge, far, end),
           NEW new, new = push_back(list, buffer.str, buffer.first, buffer.eof)
    PROVE  /\ Stored(new, top, edge, far, end) /\ new # <<>>
           /\ Keeps(new, list, f, t) /\ Adds(new, list, buffer, f, t)
  <1>1. PICK n \in Nat : \E F, S : Limits(list, n, F, S)
    BY LimitsExist
  <1>2. PICK F, S : Limits(list, n, F, S)
    BY <1>1
  <1>3. /\ Len(list) = n
        /\ \A i \in 1 .. n : F[i] = list[i].first /\ S[i] = second(list[i])
        /\ \A i \in 1 .. n : F[i] \in Nat /\ S[i] \in Nat
    BY <1>2 DEF Limits
  <1>4. list \in Seq(BufferStringRecord(Nat)) /\ buffer \in BufferStringRecord(Nat)
    BY DEF Stored, Fits
  <1>5. buffer.first = f /\ second(buffer) = t /\ f <= t
    BY DEF Within, Spans
  <1>61. PICK lo \in Nat, hi \in Nat :
              lo = lower_bound(list, f) /\ hi = upper_bound(list, t) /\ Found(n, F, S, f, t, lo, hi)
    BY <1>2, <1>4, <1>5, Searches, ZenonT(180)
  <1>6. /\ lo \in 1 .. n + 1 /\ hi \in lo .. n + 1
        /\ \A j \in 1 .. lo - 1 : S[j] < f
        /\ \A j \in hi .. n : F[j] > t
    BY <1>61 DEF Found
  <1>7. buffer = [first |-> buffer.first, str |-> buffer.str, eof |-> buffer.eof]
    BY <1>4 DEF BufferStringRecord
  <1>8. new = IF lo = hi THEN splice(list, lo, lo, buffer)
              ELSE IF list[lo].first <= f /\ second(list[lo]) >= t THEN list
              ELSE splice(list, lo, hi, merged(list, lo, hi, buffer))
    BY <1>5, <1>61, <1>7 DEF push_back, splice
  <1>9. CASE lo = hi
    <2>1. \A i \in 1 .. lo - 1 : second(list[i]) < buffer.first
      BY <1>3, <1>5, <1>6
    <2>2. \A i \in hi .. Len(list) : second(buffer) < list[i].first
      BY <1>3, <1>5, <1>6
    <2>3. lo \in 1 .. Len(list) + 1 /\ hi \in lo .. Len(list) + 1
      BY <1>3, <1>6, <1>9
    <2>4. new = splice(list, lo, hi, buffer)
      BY <1>8, <1>9
    <2>5. Clear(list, lo, hi, buffer)
      BY <2>1, <2>2, <2>3 DEF Clear
    <2>6. /\ Stored(new, top, edge, far, end) /\ new # <<>>
          /\ Inserted(new, list, lo, hi, buffer) /\ Draws(new, list, buffer)
      BY <2>4, <2>5, SpliceStored
    <2>7. ASSUME NEW k \in Nat, (f <= k /\ k < t) \/ Covers(list, k) PROVE Covers(new, k)
      <3>1. lo .. hi - 1 = {}
        BY <1>9
      <3>2. CASE f <= k /\ k < t
        BY <1>5, <2>6, <3>2 DEF Inserted
      <3>3. CASE Covers(list, k)
        BY <2>6, <3>1, <3>3, ZenonT(180) DEF Inserted, Covers
      <3> QED
        BY <2>7, <3>2, <3>3
    <2>8. Only(list, buffer, f, t, buffer, f, t)
      BY DEF Only
    <2>9. Adds(new, list, buffer, f, t)
      BY <1>5, <2>6, <2>8, DrawsAdds
    <2> QED
      BY <2>6, <2>7, <2>9 DEF Keeps
  <1>10. CASE lo # hi /\ list[lo].first <= f /\ second(list[lo]) >= t
    <2>1. new = list /\ lo \in 1 .. n
      BY <1>6, <1>8, <1>10
    <2>2. list # <<>>
      BY <1>3, <2>1
    <2>3. F[lo] <= f /\ S[lo] >= t
      BY <1>3, <1>10, <2>1
    <2>4. ASSUME NEW k \in Nat, f <= k, k < t PROVE Covers(new, k)
      <3>1. F[lo] <= k /\ k < S[lo]
        BY <1>3, <2>1, <2>3, <2>4
      <3> QED
        BY <1>3, <2>1, <3>1 DEF Covers
    <2>5. Adds(new, list, buffer, f, t)
      BY <2>1 DEF Adds
    <2> QED
      BY <2>1, <2>2, <2>4, <2>5 DEF Keeps
  <1>11. CASE lo # hi /\ ~(list[lo].first <= f /\ second(list[lo]) >= t)
    <2>1. lo \in 1 .. n /\ hi \in lo + 1 .. n + 1 /\ lo < hi
      BY <1>6, <1>11
    <2>11. Found(n, F, S, f, t, lo, hi) /\ lo < hi
      BY <1>61, <2>1
    <2>2. PICK m : m = merged(list, lo, hi, buffer)
      OBVIOUS
    <2>3. PICK l \in Nat, r \in Nat :
              /\ Fits(merged(list, lo, hi, buffer), top, edge, far, end)
              /\ Spans(merged(list, lo, hi, buffer), l, r)
              /\ Only(list, buffer, f, t, merged(list, lo, hi, buffer), l, r)
              /\ l <= f /\ t <= r /\ Replaces(n, F, S, l, r, lo, hi)
      BY <1>2, <2>11, MergeStored
    <2>31. /\ \A i \in 1 .. lo - 1 : S[i] < l
           /\ \A i \in lo .. hi - 1 : l <= F[i] /\ S[i] <= r
           /\ \A i \in hi .. n : r < F[i]
      BY <2>3 DEF Replaces
    <2>4. m.first = l /\ second(m) = r /\ Fits(m, top, edge, far, end)
      BY <2>2, <2>3 DEF Spans
    <2>5. \A i \in 1 .. lo - 1 : second(list[i]) < m.first
      BY <1>3, <2>1, <2>31, <2>4
    <2>6. \A i \in hi .. Len(list) : second(m) < list[i].first
      BY <1>3, <2>1, <2>31, <2>4
    <2>7. lo \in 1 .. Len(list) + 1 /\ hi \in lo .. Len(list) + 1
      BY <1>3, <2>1
    <2>8. new = splice(list, lo, hi, m)
      BY <1>8, <1>11, <2>2
    <2>81. Clear(list, lo, hi, m)
      BY <2>5, <2>6, <2>7 DEF Clear
    <2>9. /\ Stored(new, top, edge, far, end) /\ new # <<>>
          /\ Inserted(new, list, lo, hi, m) /\ Draws(new, list, m)
      BY <2>4, <2>8, <2>81, SpliceStored
    <2>10. ASSUME NEW k \in Nat, f <= k, k < t PROVE Covers(new, k)
      <3>1. l <= k /\ k < r
        BY <2>3, <2>10
      <3> QED
        BY <2>4, <2>9, <3>1 DEF Inserted
    <2>12. ASSUME NEW k \in Nat, Covers(list, k) PROVE Covers(new, k)
      <3>1. PICK i \in 1 .. n : list[i].first <= k /\ k < second(list[i])
        BY <1>3, <2>12 DEF Covers
      <3>2. CASE i \in lo .. hi - 1
        <4>1. F[i] <= k /\ k < S[i] /\ l <= F[i] /\ S[i] <= r
          BY <1>3, <2>31, <3>1, <3>2
        <4>2. l <= k /\ k < r
          BY <1>3, <4>1
        <4> QED
          BY <2>4, <2>9, <4>2 DEF Inserted
      <3>3. CASE i \notin lo .. hi - 1
        BY <1>3, <2>9, <3>1, <3>3 DEF Inserted
      <3> QED
        BY <3>2, <3>3
    <2>13. Only(list, buffer, f, t, m, l, r)
      BY <2>2, <2>3
    <2>14. Adds(new, list, buffer, f, t)
      BY <2>4, <2>9, <2>13, DrawsAdds
    <2> QED
      BY <2>9, <2>10, <2>12, <2>14 DEF Keeps
  <1> QED
    BY <1>9, <1>10, <1>11

-----------------------------------------------------------------------------
(* The output stream. *)

(* The output stream holds the bytes [rd, top) and has counted read bytes  *)
(* out and written bytes in.                                               *)
Holds(s, cap, read, written, rd, top) ==
    /\ s \in ByteStreamRecord(Nat)
    /\ s.capacity = cap /\ s.bytes_read = read /\ s.bytes_written = written
    /\ s.buffers = Bytes(rd, top)

(* ByteStream::write takes the next bytes of the stream when there is      *)
(* room.                                                                   *)
LEMMA WriteBytes ==
    ASSUME NEW cap \in Nat, NEW read \in Nat, NEW written \in Nat,
           NEW rd \in Nat, NEW top \in Nat,
           NEW s, Holds(s, cap, read, written, rd, top),
           NEW to \in Nat, rd <= top, top <= to, to <= rd + cap
    PROVE  /\ Holds(stream_write(s, Bytes(top, to)), cap, read, written + (to - top), rd, to)
           /\ stream_write(s, Bytes(top, to)).input_end = s.input_end
  <1> DEFINE data == Bytes(top, to)
  <1>1. data \in Seq(Nat) /\ Len(data) = to - top
    BY BytesType, ZenonT(180)
  <1>2. Len(Bytes(rd, top)) = top - rd
    BY BytesType
  <1>3. remaining_capacity(s) = cap - (top - rd)
    BY <1>2 DEF Holds, remaining_capacity, buffer_size
  <1>4. Smaller(Len(data), remaining_capacity(s)) = to - top
    BY <1>1, <1>3 DEF Smaller
  <1>5. SubSeq(data, 1, to - top) = data
    BY BytesWhole, ZenonT(180)
  <1>6. CASE data = <<>>
    <2>1. to = top
      BY <1>1, <1>6
    <2>2. stream_write(s, data) = s
      BY <1>6 DEF stream_write
    <2> QED
      BY <2>1, <2>2
  <1>7. CASE data # <<>>
    <2>1. stream_write(s, data) = accept(s, data)
      BY <1>4, <1>5, <1>7, ZenonT(180) DEF stream_write
    <2>2. s.buffers \o data = Bytes(rd, to)
      <3>1. Bytes(rd, top) \o Bytes(top, to) = Bytes(rd, to)
        BY BytesConcat, ZenonT(180)
      <3> QED
        BY <3>1 DEF Holds
    <2>3. PICK w \in Nat : w = written + (to - top)
      OBVIOUS
    <2>4. s.bytes_written + Len(data) = w
      BY <1>1, <2>3 DEF Holds
    <2>5. PICK h \in BOOLEAN : h = (data = <<>>)
      BY ZenonT(180)
    <2>6. accept(s, data) = [s EXCEPT !.buffers = Bytes(rd, to), !.hollow = h, !.bytes_written = w]
      BY <2>2, <2>4, <2>5, ZenonT(180) DEF accept
    <2>7. rd <= to
      OBVIOUS
    <2>8. PICK b \in Seq(Nat) : b = Bytes(rd, to)
      BY <2>7, BytesType
    <2>9. PICK out : out = [s EXCEPT !.buffers = b, !.hollow = h, !.bytes_written = w]
      OBVIOUS
    <2>10. /\ out \in ByteStreamRecord(Nat) /\ out.capacity = cap /\ out.bytes_read = read
           /\ out.bytes_written = w /\ out.buffers = b /\ out.input_end = s.input_end
      BY <2>9, ZenonT(180) DEF Holds, ByteStreamRecord
    <2>11. stream_write(s, data) = out
      BY <2>1, <2>6, <2>8, <2>9
    <2> QED
      BY <2>3, <2>8, <2>10, <2>11 DEF Holds
  <1> QED
    BY <1>6, <1>7

(* ByteStream::end_input changes no byte. *)
LEMMA EndBytes ==
    ASSUME NEW cap \in Nat, NEW read \in Nat, NEW written \in Nat,
           NEW rd \in Nat, NEW top \in Nat,
           NEW s, Holds(s, cap, read, written, rd, top)
    PROVE  Holds(end_input(s), cap, read, written, rd, top) /\ end_input(s).input_end = TRUE
  <1>1. PICK out : out = [s EXCEPT !.input_end = TRUE]
    BY ZenonT(180)
  <1>2. /\ out \in ByteStreamRecord(Nat) /\ out.capacity = cap /\ out.bytes_read = read
        /\ out.bytes_written = written /\ out.buffers = Bytes(rd, top) /\ out.input_end = TRUE
    BY <1>1, ZenonT(180) DEF Holds, ByteStreamRecord
  <1> QED
    BY <1>1, <1>2 DEF Holds, end_input

(* What push_substring does with the front of the list: write, then        *)
(* end_input if it ended the stream.                                       *)
drained(s, data, ends) == IF ends THEN end_input(stream_write(s, data)) ELSE stream_write(s, data)

(* The bytes [top, to) fit the output; base is the index of its first      *)
(* byte.                                                                   *)
CanDrain(s, cap, base, rd, top, to) ==
    /\ cap \in Nat /\ base \in Nat /\ rd \in Nat /\ top \in Nat /\ to \in Nat
    /\ base <= rd /\ rd <= top /\ top <= to /\ to <= rd + cap
    /\ Holds(s, cap, rd - base, top - base, rd, top)

(* out has ended if ends holds or s had ended. *)
EndsIf(out, s, ends) == out.input_end = IF ends THEN TRUE ELSE s.input_end

(* The output after the front of the list was written. *)
LEMMA DrainBytes ==
    ASSUME NEW s, NEW cap, NEW base, NEW rd, NEW top, NEW to, NEW ends,
           CanDrain(s, cap, base, rd, top, to)
    PROVE  /\ Holds(drained(s, Bytes(top, to), ends), cap, rd - base, to - base, rd, to)
           /\ EndsIf(drained(s, Bytes(top, to), ends), s, ends)
  <1>1. PICK c \in Nat, b \in Nat, p \in Nat, q \in Nat, t \in Nat :
           /\ c = cap /\ b = base /\ p = rd /\ q = top /\ t = to
           /\ b <= p /\ p <= q /\ q <= t /\ t <= p + c
    BY DEF CanDrain
  <1>3. PICK read \in Nat, written \in Nat, w \in Nat :
           read = p - b /\ written = q - b /\ w = t - b /\ w = written + (t - q)
    BY <1>1
  <1>4. Holds(s, c, read, written, p, q)
    BY <1>1, <1>3 DEF CanDrain
  <1>5. PICK out : out = stream_write(s, Bytes(q, t))
    OBVIOUS
  <1>6. p <= q /\ q <= t /\ t <= p + c
    BY <1>1
  <1>7. /\ Holds(stream_write(s, Bytes(q, t)), c, read, written + (t - q), p, t)
        /\ stream_write(s, Bytes(q, t)).input_end = s.input_end
    BY <1>4, <1>6, WriteBytes
  <1>8. Holds(out, c, read, w, p, t) /\ out.input_end = s.input_end
    BY <1>3, <1>5, <1>7
  <1>9. CASE ends
    <2>1. Holds(end_input(out), c, read, w, p, t) /\ end_input(out).input_end = TRUE
      BY <1>8, EndBytes, ZenonT(180)
    <2> QED
      BY <1>1, <1>3, <1>5, <1>9, <2>1, ZenonT(180) DEF drained, EndsIf
  <1>10. CASE ~ends
    BY <1>1, <1>3, <1>5, <1>8, <1>10 DEF drained, EndsIf
  <1> QED
    BY <1>9, <1>10

(* ByteStream::read removes the oldest bytes only. *)
LEMMA ReadBytes ==
    ASSUME NEW cap \in Nat, NEW read \in Nat, NEW written \in Nat,
           NEW rd \in Nat, NEW top \in Nat, rd <= top,
           NEW s, Holds(s, cap, read, written, rd, top),
           NEW len \in Nat, len <= buffer_size(s)
    PROVE  /\ rd + len <= top
           /\ Holds(stream_read(s, len), cap, read + len, written, rd + len, top)
           /\ stream_read(s, len).input_end = s.input_end
  <1>1. Len(Bytes(rd, top)) = top - rd /\ Bytes(rd, top) \in Seq(Nat)
    BY BytesType
  <1>2. s.buffers = Bytes(rd, top) /\ buffer_size(s) = top - rd
    BY <1>1 DEF Holds, buffer_size
  <1>3. PICK nrd \in Nat, nread \in Nat : nrd = rd + len /\ nread = read + len /\ nrd <= top
    BY <1>2
  <1>4. SubSeq(Bytes(rd, top), len + 1, top - rd) = Bytes(nrd, top)
    <2>1. SubSeq(Bytes(rd, top), nrd - rd + 1, top - rd) = Bytes(nrd, top)
      BY <1>3, BytesPart
    <2>2. nrd - rd + 1 = len + 1
      BY <1>3
    <2> QED
      BY <2>1, <2>2
  <1>5. ~remove_prefix_throws(s, len)
    BY <1>2, <1>3 DEF remove_prefix_throws
  <1>6. remove_prefix(s, len) = [s EXCEPT !.buffers = Bytes(nrd, top)]
    BY <1>1, <1>2, <1>4, <1>5, ZenonT(180) DEF remove_prefix
  <1>7. Len(peek_output(s, len)) = len
    <2>1. Smaller(len, buffer_size(s)) = len
      BY <1>2, <1>3 DEF Smaller
    <2>2. Len(SubSeq(Bytes(rd, top), 1, len)) = len
      BY <1>1, <1>3, SubSeqProperties
    <2> QED
      BY <1>2, <2>1, <2>2 DEF peek_output
  <1>8. PICK b \in Seq(Nat) : b = Bytes(nrd, top)
    BY <1>3, BytesType
  <1>9. PICK out : out = [s EXCEPT !.buffers = b, !.bytes_read = nread]
    OBVIOUS
  <1>10. stream_read(s, len) = out
    BY <1>3, <1>6, <1>7, <1>8, <1>9, ZenonT(180) DEF stream_read, Holds, ByteStreamRecord
  <1>11. /\ out \in ByteStreamRecord(Nat) /\ out.capacity = cap /\ out.bytes_read = nread
         /\ out.bytes_written = written /\ out.buffers = b /\ out.input_end = s.input_end
    BY <1>9, ZenonT(180) DEF Holds, ByteStreamRecord
  <1> QED
    BY <1>3, <1>8, <1>10, <1>11 DEF Holds

-----------------------------------------------------------------------------
(* Taking the front of the list. *)

(* What leaves the list when its front is popped is [top, to). *)
Rests(list, after, top, to) ==
    /\ \A k \in Nat : Covers(list, k) => k < to \/ Covers(after, k)
    /\ \A k \in Nat : (top <= k /\ k < to) \/ Covers(after, k) => Covers(list, k)
    /\ Marked(after) => Marked(list)

(* pop_front with room left for [top, edge): the front element, or as much *)
(* of it as fits, leaves the list; its rest stays stored.                  *)
Pops(front, after, list, top, to, edge, far, end) ==
    /\ top <= to /\ to <= edge /\ to <= end
    /\ front.str = Bytes(top, to) /\ front.eof \in BOOLEAN
    /\ front.eof => to = end /\ Marked(list)
    /\ Stored(after, to, edge, far, end)
    /\ Rests(list, after, top, to)

(* BufferStringList::pop_front keeps the list ordered, also when it cuts   *)
(* the front: the rest of a cut excerpt starts at the edge of the window,  *)
(* where no other excerpt of the list can start, so that it is the only    *)
(* one.                                                                    *)
LEMMA PopFront ==
    ASSUME NEW top \in Nat, NEW edge \in Nat, NEW far \in Nat, NEW end \in Nat,
           NEW list, Stored(list, top, edge, far, end), list # <<>>, list[1].first = top, top <= end,
           NEW room \in Nat, edge = top + room
    PROVE  \E to \in Nat :
              Pops(popped(list, room), after_pop(list, room), list, top, to, edge, far, end)
  <1>1. list \in Seq(BufferStringRecord(Nat)) /\ Len(list) \in Nat /\ Len(list) >= 1
    BY DEF Stored
  <1>2. PICK n \in Nat : n = Len(list) /\ n >= 1
    BY <1>1
  <1>3. PICK front : front = list[1]
    OBVIOUS
  <1>4. Fits(front, top, edge, far, end)
    BY <1>2, <1>3 DEF Stored
  <1>5. PICK f \in Nat, t \in Nat : Within(front, f, t, top, edge, far, end)
    BY <1>4, FitsParts
  <1>6. /\ f = top /\ front.first = top /\ second(front) = t /\ top <= t /\ front.str = Bytes(top, t)
        /\ t <= far /\ t <= end /\ (front.eof => t = end)
    BY <1>3, <1>5 DEF Within, Spans, Inside
  <1>7. Len(front.str) = t - top
    BY <1>6, BytesType
  <1>8. front.eof \in BOOLEAN
    BY <1>4 DEF Fits, BufferStringRecord
  <1>9. front.eof => Marked(list)
    BY <1>2, <1>3 DEF Marked
  <1>10. PICK rest : rest = SubSeq(list, 2, n)
    BY ZenonT(180)
  <1>11. /\ rest \in Seq(BufferStringRecord(Nat)) /\ Len(rest) = n - 1
         /\ \A i \in 1 .. n - 1 : rest[i] = list[i + 1]
    BY <1>1, <1>2, <1>10
  <1>12. \A j \in 2 .. n : t < list[j].first
    BY <1>2, <1>3, <1>6 DEF Stored, Ordered
  <1>13. CASE room >= t - top
    <2>1. popped(list, room) = front /\ after_pop(list, room) = rest
      BY <1>2, <1>3, <1>7, <1>10, <1>13 DEF popped, after_pop
    <2>2. t <= edge
      BY <1>13
    <2>3. ASSUME NEW i \in 1 .. Len(rest) PROVE Fits(rest[i], t, edge, far, end)
      <3>1. i + 1 \in 1 .. n /\ i + 1 \in 2 .. n /\ rest[i] = list[i + 1]
        BY <1>11
      <3>2. Fits(rest[i], top, edge, far, end) /\ t < rest[i].first
        BY <1>2, <1>12, <3>1 DEF Stored
      <3>3. rest[i].first \in Nat
        BY <3>2 DEF Fits, BufferStringRecord
      <3>4. t <= rest[i].first
        BY <3>2, <3>3
      <3> QED
        BY <3>2, <3>4 DEF Fits
    <2>4. Ordered(rest)
      <3> SUFFICES ASSUME NEW i \in 1 .. Len(rest), NEW j \in 1 .. Len(rest), i < j
                   PROVE  second(rest[i]) < rest[j].first
        BY DEF Ordered
      <3>1. /\ i + 1 \in 1 .. n /\ j + 1 \in 1 .. n /\ i + 1 < j + 1
            /\ rest[i] = list[i + 1] /\ rest[j] = list[j + 1]
        BY <1>11
      <3> QED
        BY <1>2, <3>1 DEF Stored, Ordered
    <2>5. Stored(rest, t, edge, far, end)
      BY <1>11, <2>3, <2>4 DEF Stored
    <2>6. ASSUME NEW k \in Nat, Covers(list, k) PROVE k < t \/ Covers(rest, k)
      <3>1. PICK i \in 1 .. n : list[i].first <= k /\ k < second(list[i])
        BY <1>2, <2>6 DEF Covers
      <3>2. CASE i = 1
        BY <1>3, <1>6, <3>1, <3>2
      <3>3. CASE i # 1
        <4>1. i - 1 \in 1 .. Len(rest) /\ rest[i - 1] = list[i]
          BY <1>11, <3>3
        <4> QED
          BY <3>1, <4>1 DEF Covers
      <3> QED
        BY <3>2, <3>3
    <2>7. ASSUME NEW k \in Nat, Covers(rest, k) PROVE Covers(list, k)
      <3>1. PICK i \in 1 .. Len(rest) : rest[i].first <= k /\ k < second(rest[i])
        BY <2>7 DEF Covers
      <3>2. i + 1 \in 1 .. Len(list) /\ rest[i] = list[i + 1]
        BY <1>2, <1>11
      <3> QED
        BY <3>1, <3>2 DEF Covers
    <2>8. ASSUME Marked(rest) PROVE Marked(list)
      <3>1. PICK i \in 1 .. Len(rest) : rest[i].eof
        BY <2>8 DEF Marked
      <3>2. i + 1 \in 1 .. Len(list) /\ rest[i] = list[i + 1]
        BY <1>2, <1>11
      <3> QED
        BY <3>1, <3>2 DEF Marked
    <2>9. ASSUME NEW k \in Nat, top <= k, k < t PROVE Covers(list, k)
      BY <1>2, <1>3, <1>6, <2>9 DEF Covers
    <2>10. Rests(list, rest, top, t)
      BY <2>6, <2>7, <2>8, <2>9 DEF Rests
    <2>11. Pops(front, rest, list, top, t, edge, far, end)
      BY <1>6, <1>8, <1>9, <2>2, <2>5, <2>10 DEF Pops
    <2> QED
      BY <2>1, <2>11
  <1>14. CASE ~(room >= t - top)
    <2>1. edge < t
      BY <1>14
    <2>2. n = 1
      <3> SUFFICES ASSUME n # 1 PROVE FALSE
        OBVIOUS
      <3>1. 2 \in 1 .. n /\ 2 \in 2 .. n
        BY <1>2
      <3>2. Fits(list[2], top, edge, far, end) /\ t < list[2].first
        BY <1>2, <1>12, <3>1 DEF Stored
      <3>3. PICK x \in Nat : x = list[2].first /\ x <= edge
        BY <3>2 DEF Fits, BufferStringRecord
      <3> QED
        BY <2>1, <3>2, <3>3
    <2>3. rest = <<>>
      BY <1>11, <2>2
    <2>31. IsSplit(top, t, room, edge)
      BY <2>1, BytesSplit
    <2>4. SubSeq(front.str, 1, room) = Bytes(top, edge)
      BY <1>6, <2>31 DEF IsSplit
    <2>5. SubSeq(front.str, room + 1, Len(front.str)) = Bytes(edge, t)
      BY <1>6, <1>7, <2>31 DEF IsSplit
    <2>6. PICK b : b = BufferStringOf(edge, t, front.eof)
      OBVIOUS
    <2>7. /\ popped(list, room) = [first |-> top, str |-> Bytes(top, edge), eof |-> FALSE]
          /\ after_pop(list, room) = <<b>>
      <3>1. after_pop(list, room) = rest \o <<b>>
        BY <1>2, <1>3, <1>6, <1>7, <1>10, <1>14, <2>5, <2>6, ZenonT(180) DEF after_pop, BufferStringOf
      <3>2. popped(list, room) = [first |-> top, str |-> Bytes(top, edge), eof |-> FALSE]
        BY <1>3, <1>6, <1>7, <1>14, <2>4, ZenonT(180) DEF popped
      <3> QED
        BY <2>3, <3>1, <3>2
    <2>8. Fits(b, edge, edge, far, end) /\ Spans(b, edge, t)
      <3>1. Inside(edge, t, end)
        BY <1>6 DEF Inside
      <3> QED
        BY <1>6, <1>8, <2>1, <2>6, <3>1, FitsIf
    <2>9. b \in BufferStringRecord(Nat) /\ b.first = edge /\ second(b) = t
      BY <2>8 DEF Fits, Spans
    <2>10. b.eof = front.eof
      BY <2>6 DEF BufferStringOf
    <2>11. PICK after : after = <<b>>
      BY ZenonT(180)
    <2>12. after \in Seq(BufferStringRecord(Nat)) /\ Len(after) = 1 /\ after[1] = b
      BY <2>9, <2>11
    <2>13. Stored(after, edge, edge, far, end)
      BY <2>8, <2>12 DEF Stored, Ordered
    <2>14. ASSUME NEW k \in Nat, Covers(list, k) PROVE k < edge \/ Covers(after, k)
      <3>1. k < t
        BY <1>2, <1>3, <1>6, <2>2, <2>14 DEF Covers
      <3> QED
        BY <2>9, <2>12, <3>1 DEF Covers
    <2>15. ASSUME NEW k \in Nat, Covers(after, k) PROVE Covers(list, k)
      <3>1. edge <= k /\ k < t
        BY <2>9, <2>12, <2>15 DEF Covers
      <3>2. top <= k /\ k < t
        BY <3>1
      <3> QED
        BY <1>2, <1>3, <1>6, <3>2 DEF Covers
    <2>16. Marked(after) => Marked(list)
      BY <1>9, <2>10, <2>12 DEF Marked
    <2>17. edge <= end /\ top <= edge
      BY <1>6, <2>1
    <2>18. ASSUME NEW k \in Nat, top <= k, k < edge PROVE Covers(list, k)
      <3>1. k < t
        BY <2>1, <2>18
      <3> QED
        BY <1>2, <1>3, <1>6, <2>18, <3>1 DEF Covers
    <2>19. Rests(list, after, top, edge)
      BY <2>14, <2>15, <2>16, <2>18 DEF Rests
    <2>20. Pops(popped(list, room), after, list, top, edge, edge, far, end)
      BY <2>7, <2>13, <2>17, <2>19 DEF Pops
    <2> QED
      BY <2>7, <2>11, <2>20
  <1> QED
    BY <1>13, <1>14

-----------------------------------------------------------------------------
(* The reassembler. *)

(* The state of a StreamReassembler. *)
ReassemblerRecord ==
    [top_pointer : Nat, output : ByteStreamRecord(Nat), capacity : Nat,
     buffer_list : Seq(BufferStringRecord(Nat))]

(* The inductive invariant of a StreamReassembler. Its output holds the    *)
(* bytes [rd, top) of a stream that starts at index base and ends at index *)
(* end; what it stores lies beyond top, starts by the edge rd + cap of the *)
(* window, and ends by rd + 2 cap. Base is 0 for a reassembler on its own  *)
(* and 1 in a TCPReceiver, where index 0 is the SYN.                       *)
AssemblesAt(r, base, cap, end, rd, top) ==
    /\ r \in ReassemblerRecord
    /\ r.top_pointer = top /\ r.capacity = cap
    /\ base <= rd /\ rd <= top /\ top <= rd + cap /\ top <= end
    /\ Holds(r.output, cap, rd - base, top - base, rd, top)
    /\ r.output.input_end => top = end
    /\ Stored(r.buffer_list, top, rd + cap, rd + cap + cap, end)

(* The end of the stream is known. *)
Ends(r, list) == r.output.input_end \/ Marked(list)

(* From the list handed to assemble to the new reassembler: bytes leave    *)
(* the list only into the output, and nothing is invented.                 *)
Progress(r, list, new, top, to) ==
    /\ top <= to
    /\ \A k \in Nat : Covers(list, k) => k < to \/ Covers(new.buffer_list, k)
    /\ \A k \in Nat : k < to \/ Covers(new.buffer_list, k) => k < top \/ Covers(list, k)
    /\ Ends(new, new.buffer_list) => Ends(r, list)
    /\ r.output.input_end => new.output.input_end

(* The hypotheses of AssembleStep, as one predicate. *)
CanAssemble(r, list, base, cap, end, rd, top) ==
    /\ base \in Nat /\ cap \in Nat /\ end \in Nat /\ rd \in Nat /\ top \in Nat
    /\ AssemblesAt(r, base, cap, end, rd, top)
    /\ Stored(list, top, rd + cap, rd + cap + cap, end) /\ list # <<>>

(* The second half of push_substring keeps the invariant and loses         *)
(* nothing.                                                                *)
LEMMA AssembleStep ==
    ASSUME NEW base \in Nat, NEW cap \in Nat, NEW end \in Nat, NEW rd \in Nat, NEW top \in Nat,
           NEW r, AssemblesAt(r, base, cap, end, rd, top),
           NEW list, Stored(list, top, rd + cap, rd + cap + cap, end), list # <<>>
    PROVE  \E to \in Nat :
              /\ AssemblesAt(assemble(r, list), base, cap, end, rd, to)
              /\ Progress(r, list, assemble(r, list), top, to)
  <1>1. /\ r \in ReassemblerRecord /\ r.top_pointer = top /\ r.capacity = cap
        /\ base <= rd /\ rd <= top /\ top <= rd + cap /\ top <= end
        /\ Holds(r.output, cap, rd - base, top - base, rd, top)
        /\ r.output.input_end => top = end
    BY DEF AssemblesAt
  <1>2. PICK edge \in Nat, far \in Nat : edge = rd + cap /\ far = rd + cap + cap
    OBVIOUS
  <1>3. Stored(list, top, edge, far, end)
    BY <1>2
  <1>4. PICK room \in Nat : room = edge - top /\ edge = top + room
    BY <1>1, <1>2
  <1>5. top_index(list) = list[1].first
    BY DEF top_index
  <1>6. list \in Seq(BufferStringRecord(Nat))
    BY <1>3 DEF Stored
  <1>7. CASE list[1].first # top
    <2>1. PICK r2 : r2 = [r EXCEPT !.buffer_list = list]
      BY ZenonT(180)
    <2>2. assemble(r, list) = r2
      BY <1>1, <1>5, <1>7, <2>1 DEF assemble
    <2>3. /\ r2 \in ReassemblerRecord /\ r2.top_pointer = top /\ r2.capacity = cap
          /\ r2.output = r.output /\ r2.buffer_list = list
      BY <1>1, <1>6, <2>1, ZenonT(180) DEF ReassemblerRecord
    <2>4. AssemblesAt(r2, base, cap, end, rd, top)
      BY <1>1, <2>3 DEF AssemblesAt
    <2>5. Progress(r, list, r2, top, top)
      BY <2>3 DEF Progress, Ends
    <2> QED
      BY <2>2, <2>4, <2>5
  <1>8. CASE list[1].first = top
    <2>1. PICK front, after : front = popped(list, room) /\ after = after_pop(list, room)
      OBVIOUS
    <2>100. top <= end
      BY <1>1
    <2>101. PICK to \in Nat :
               Pops(popped(list, room), after_pop(list, room), list, top, to, edge, far, end)
      BY <1>3, <1>4, <1>8, <2>100, PopFront, ZenonT(180)
    <2>2. /\ top <= to /\ to <= edge /\ to <= end
          /\ front.str = Bytes(top, to) /\ front.eof \in BOOLEAN
          /\ front.eof => to = end /\ Marked(list)
          /\ Stored(after, to, edge, far, end) /\ Rests(list, after, top, to)
      BY <2>1, <2>101 DEF Pops
    <2>3. Len(Bytes(top, to)) = to - top /\ Len(Bytes(rd, top)) = top - rd
      BY <1>1, <2>2, BytesType
    <2>4. remaining_capacity(r.output) = room
      BY <1>1, <1>2, <1>4, <2>3 DEF Holds, remaining_capacity, buffer_size
    <2>5. advance(r, front) = to
      BY <1>1, <2>2, <2>3 DEF advance
    <2>7. PICK out2 : out2 = drained(r.output, Bytes(top, to), front.eof)
      OBVIOUS
    <2>8. CanDrain(r.output, cap, base, rd, top, to)
      BY <1>1, <1>2, <2>2 DEF CanDrain
    <2>9. /\ Holds(drained(r.output, Bytes(top, to), front.eof), cap, rd - base, to - base, rd, to)
          /\ EndsIf(drained(r.output, Bytes(top, to), front.eof), r.output, front.eof)
      BY <2>8, DrainBytes
    <2>12. /\ Holds(out2, cap, rd - base, to - base, rd, to)
           /\ out2.input_end = IF front.eof THEN TRUE ELSE r.output.input_end
      BY <2>7, <2>9 DEF EndsIf
    <2>13. PICK r2 : r2 = [r EXCEPT !.buffer_list = after, !.top_pointer = to, !.output = out2]
      OBVIOUS
    <2>14. assemble(r, list) = r2
      BY <1>1, <1>5, <1>8, <2>1, <2>2, <2>4, <2>5, <2>7, <2>13, ZenonT(180) DEF assemble, drained
    <2>15. after \in Seq(BufferStringRecord(Nat)) /\ out2 \in ByteStreamRecord(Nat)
      BY <2>2, <2>12 DEF Stored, Holds
    <2>16. /\ r2 \in ReassemblerRecord /\ r2.top_pointer = to /\ r2.capacity = cap
           /\ r2.output = out2 /\ r2.buffer_list = after
      BY <1>1, <2>13, <2>15, ZenonT(180) DEF ReassemblerRecord
    <2>17. r2.output.input_end => to = end
      <3>1. CASE front.eof
        BY <2>2, <3>1
      <3>2. CASE ~front.eof
        <4>1. r2.output.input_end => top = end
          BY <1>1, <2>12, <2>16, <3>2
        <4> QED
          BY <1>1, <2>2, <4>1
      <3> QED
        BY <3>1, <3>2
    <2>18. Holds(r2.output, cap, rd - base, to - base, rd, to)
      BY <2>12, <2>16
    <2>19. base <= rd /\ rd <= to /\ to <= rd + cap /\ to <= end
      BY <1>1, <1>2, <2>2
    <2>20. Stored(r2.buffer_list, to, rd + cap, rd + cap + cap, end)
      BY <1>2, <2>2, <2>16
    <2>21. AssemblesAt(r2, base, cap, end, rd, to)
      BY <2>16, <2>17, <2>18, <2>19, <2>20 DEF AssemblesAt
    <2>22. ASSUME NEW k \in Nat, k < to \/ Covers(after, k) PROVE k < top \/ Covers(list, k)
      BY <2>2, <2>22 DEF Rests
    <2>23. Ends(r2, after) => Ends(r, list)
      BY <2>2, <2>12, <2>16, ZenonT(180) DEF Rests, Ends
    <2>24. r.output.input_end => r2.output.input_end
      BY <2>12, <2>16, ZenonT(180)
    <2>25. Progress(r, list, r2, top, to)
      BY <2>2, <2>16, <2>22, <2>23, <2>24 DEF Progress, Rests
    <2> QED
      BY <2>14, <2>21, <2>25
  <1> QED
    BY <1>7, <1>8

(* AssembleStep for hypotheses given as one predicate. *)
LEMMA AssembleAny ==
    ASSUME NEW r, NEW list, NEW base, NEW cap, NEW end, NEW rd, NEW top,
           CanAssemble(r, list, base, cap, end, rd, top)
    PROVE  \E to \in Nat :
              /\ AssemblesAt(assemble(r, list), base, cap, end, rd, to)
              /\ Progress(r, list, assemble(r, list), top, to)
  <1>1. PICK B \in Nat, C \in Nat, E \in Nat, R \in Nat, T \in Nat :
           B = base /\ C = cap /\ E = end /\ R = rd /\ T = top
    BY DEF CanAssemble
  <1>2. /\ AssemblesAt(r, B, C, E, R, T)
        /\ Stored(list, T, R + C, R + C + C, E) /\ list # <<>>
    BY <1>1 DEF CanAssemble
  <1>3. \E to \in Nat :
              /\ AssemblesAt(assemble(r, list), B, C, E, R, to)
              /\ Progress(r, list, assemble(r, list), T, to)
    BY <1>2, AssembleStep
  <1> QED
    BY <1>1, <1>3

(* An excerpt [from, to) of the stream arrives; flag is set only if it     *)
(* ends the stream.                                                        *)
CanPush(r, base, cap, end, rd, top, from, to, flag) ==
    /\ base \in Nat /\ cap \in Nat /\ end \in Nat /\ rd \in Nat /\ top \in Nat
    /\ from \in Nat /\ to \in Nat
    /\ AssemblesAt(r, base, cap, end, rd, top)
    /\ from <= to /\ Inside(from, to, end) /\ (flag => to = end)

(* What push_substring does to a reassembler, seen from outside: the       *)
(* output grows; what was held stays held or is assembled; only the        *)
(* excerpt is added; the end is learnt only from the flag and never        *)
(* forgotten; and an excerpt that starts inside the window, at or after    *)
(* top, has its first byte accepted.                                       *)
Pushed(r, new, top, edge, from, to, flag, ntop) ==
    /\ top <= ntop
    /\ \A k \in Nat : Covers(r.buffer_list, k) => k < ntop \/ Covers(new.buffer_list, k)
    /\ \A k \in Nat : k < ntop \/ Covers(new.buffer_list, k)
                      => k < top \/ Covers(r.buffer_list, k) \/ (from <= k /\ k < to)
    /\ Ends(new, new.buffer_list) => Ends(r, r.buffer_list) \/ flag
    /\ r.output.input_end => new.output.input_end
    /\ top <= from /\ from < edge /\ from < to => from < ntop \/ Covers(new.buffer_list, from)

(* What is left of the excerpt when the known bytes are dropped from its   *)
(* front and it is cut to the room there is: the bytes [i, c), with eof    *)
(* only when nothing was cut off its end.                                  *)
Cuts(data, i, c, to, known, flag, room) ==
    /\ cut(SubSeq(data, known + 1, Len(data)), room) = Bytes(i, c)
    /\ cut_eof(SubSeq(data, known + 1, Len(data)), flag, room) \in BOOLEAN
    /\ cut_eof(SubSeq(data, known + 1, Len(data)), flag, room) => flag /\ c = to
    /\ i <= c /\ c <= to /\ c <= i + room
    /\ i < to /\ 0 < room => i < c

(* The hypotheses of CutBytes, as one predicate. *)
CanCut(from, to, known, room, i) ==
    /\ from \in Nat /\ to \in Nat /\ known \in Nat /\ room \in Nat
    /\ from <= to /\ known <= to - from /\ i = from + known

(* push_substring cuts an excerpt into an excerpt of the stream. *)
LEMMA CutBytes ==
    ASSUME NEW from \in Nat, NEW to \in Nat, NEW known \in Nat, from <= to, known <= to - from,
           NEW flag, NEW room \in Nat, NEW i \in Nat, i = from + known
    PROVE  \E c \in Nat : Cuts(Bytes(from, to), i, c, to, known, flag, room)
  <1>1. Len(Bytes(from, to)) = to - from
    BY BytesType
  <1>2. SubSeq(Bytes(from, to), known + 1, to - from) = Bytes(i, to) /\ i <= to
    <2>1. i <= to /\ i - from + 1 = known + 1 /\ from <= i
      OBVIOUS
    <2>2. SubSeq(Bytes(from, to), i - from + 1, to - from) = Bytes(i, to)
      BY <2>1, BytesPart
    <2> QED
      BY <2>1, <2>2
  <1>3. PICK d : d = SubSeq(Bytes(from, to), known + 1, Len(Bytes(from, to)))
    BY ZenonT(180)
  <1>4. d = Bytes(i, to)
    BY <1>1, <1>2, <1>3
  <1>5. Len(d) = to - i
    BY <1>2, <1>4, BytesType, ZenonT(180)
  <1>6. CASE to - i > room
    <2>1. PICK c \in Nat : c = i + room
      OBVIOUS
    <2>2. i <= c /\ c <= to
      BY <1>6, <2>1
    <2>3. SubSeq(Bytes(i, to), 1, c - i) = Bytes(i, c)
      <3>1. SubSeq(Bytes(i, to), i - i + 1, c - i) = Bytes(i, c)
        BY <2>2, BytesPart
      <3>2. i - i + 1 = 1
        OBVIOUS
      <3> QED
        BY <3>1, <3>2
    <2>4. c - i = room
      BY <2>1
    <2>5. cut(d, room) = Bytes(i, c)
      BY <1>4, <1>5, <1>6, <2>3, <2>4, ZenonT(180) DEF cut
    <2>6. cut_eof(d, flag, room) \in BOOLEAN /\ ~cut_eof(d, flag, room)
      BY <1>5, <1>6 DEF cut_eof
    <2>61. c <= i + room /\ (0 < room => i < c)
      BY <2>1
    <2>7. Cuts(Bytes(from, to), i, c, to, known, flag, room)
      BY <1>3, <2>2, <2>5, <2>6, <2>61 DEF Cuts
    <2> QED
      BY <2>7
  <1>7. CASE ~(to - i > room)
    <2>1. cut(d, room) = Bytes(i, to)
      BY <1>4, <1>5, <1>7 DEF cut
    <2>2. cut_eof(d, flag, room) \in BOOLEAN /\ (cut_eof(d, flag, room) => flag)
      BY <1>5, <1>7 DEF cut_eof
    <2>3. to <= i + room
      BY <1>7
    <2>4. Cuts(Bytes(from, to), i, to, to, known, flag, room)
      BY <1>2, <1>3, <2>1, <2>2, <2>3 DEF Cuts
    <2> QED
      BY <2>4
  <1> QED
    BY <1>6, <1>7

(* CutBytes for hypotheses given as one predicate. *)
LEMMA CutAny ==
    ASSUME NEW from, NEW to, NEW known, NEW flag, NEW room, NEW i, CanCut(from, to, known, room, i)
    PROVE  \E c \in Nat : Cuts(Bytes(from, to), i, c, to, known, flag, room)
  <1>1. PICK F \in Nat, G \in Nat, K \in Nat, R \in Nat, I \in Nat :
           F = from /\ G = to /\ K = known /\ R = room /\ I = i
    BY DEF CanCut
  <1>2. F <= G /\ K <= G - F /\ I = F + K
    BY <1>1 DEF CanCut
  <1>3. \E c \in Nat : Cuts(Bytes(F, G), I, c, G, K, flag, R)
    BY <1>2, CutBytes, ZenonT(180)
  <1> QED
    BY <1>1, <1>3

(* StreamReassembler::push_substring, for any excerpt of the stream, any   *)
(* capacity and any state of the reassembler, keeps the invariant and does *)
(* what Pushed says.                                                       *)
LEMMA PushSubstringStep ==
    ASSUME NEW r, NEW base, NEW cap, NEW end, NEW rd, NEW top, NEW from, NEW to, NEW flag,
           CanPush(r, base, cap, end, rd, top, from, to, flag)
    PROVE  \E ntop \in Nat :
              LET new == push_substring(r, Bytes(from, to), from, flag)
              IN  /\ AssemblesAt(new, base, cap, end, rd, ntop)
                  /\ Pushed(r, new, top, rd + cap, from, to, flag, ntop)
  <1>1. PICK new : new = push_substring(r, Bytes(from, to), from, flag)
    OBVIOUS
  <1>2. SUFFICES \E ntop \in Nat :
                    /\ AssemblesAt(new, base, cap, end, rd, ntop)
                    /\ Pushed(r, new, top, rd + cap, from, to, flag, ntop)
    BY <1>1
  <1>3. PICK B \in Nat, C \in Nat, E \in Nat, R \in Nat, T \in Nat, F \in Nat, G \in Nat :
           B = base /\ C = cap /\ E = end /\ R = rd /\ T = top /\ F = from /\ G = to
    BY DEF CanPush
  <1>4. /\ AssemblesAt(r, B, C, E, R, T)
        /\ F <= G /\ Inside(F, G, E) /\ (flag => G = E)
    BY <1>3 DEF CanPush
  <1>5. new = push_substring(r, Bytes(F, G), F, flag)
    BY <1>1, <1>3
  <1>6. /\ r.top_pointer = T /\ r.capacity = C /\ B <= R /\ R <= T /\ T <= R + C /\ T <= E
        /\ r.output.buffers = Bytes(R, T)
        /\ Stored(r.buffer_list, T, R + C, R + C + C, E)
    BY <1>4 DEF AssemblesAt, Holds
  <1>7. PICK edge \in Nat, far \in Nat, room \in Nat :
           edge = R + C /\ far = R + C + C /\ room = edge - T /\ room <= C /\ edge = T + room
    BY <1>6
  <1>8. Len(Bytes(R, T)) = T - R /\ Len(Bytes(F, G)) = G - F
    BY <1>4, <1>6, BytesType
  <1>9. current_capacity(r) = room
    BY <1>6, <1>7, <1>8 DEF current_capacity, buffer_size
  <1>101. PICK known \in Nat : known = duplicate(r, F) /\ known = IF F < T THEN T - F ELSE 0
    <2>1. duplicate(r, F) = IF F < T THEN T - F ELSE 0
      BY <1>6 DEF duplicate
    <2> QED
      BY <2>1
  <1>10. PICK i \in Nat :
            /\ known = duplicate(r, F) /\ i = F + known /\ T <= i
            /\ (T <= F => known = 0 /\ i = F)
            /\ (F < T => i = T)
    BY <1>101
  <1>11. beyond_window(r, i) <=> i >= edge
    BY <1>6, <1>7, <1>9 DEF beyond_window
  <1>12. CASE known > G - F \/ i >= edge
    <2>1. new = r
      BY <1>5, <1>8, <1>10, <1>11, <1>12 DEF push_substring
    <2>2. AssemblesAt(new, B, C, E, R, T)
      BY <1>4, <2>1
    <2>3. ~(T <= F /\ F < edge /\ F < G)
      BY <1>4, <1>10, <1>12
    <2>4. Pushed(r, new, T, edge, F, G, flag, T)
      BY <2>1, <2>3 DEF Pushed
    <2> QED
      BY <1>3, <1>7, <2>2, <2>4
  <1>13. CASE known <= G - F /\ i < edge
    <2>1. PICK c \in Nat : Cuts(Bytes(F, G), i, c, G, known, flag, room)
      <3>1. CanCut(F, G, known, room, i)
        BY <1>4, <1>10, <1>13 DEF CanCut
      <3> QED
        BY <3>1, CutAny
    <2>101. PICK ce \in BOOLEAN :
               ce = cut_eof(SubSeq(Bytes(F, G), known + 1, Len(Bytes(F, G))), flag, room)
      BY <2>1 DEF Cuts
    <2>2. /\ i <= c /\ c <= G /\ c <= i + room
          /\ i < G /\ 0 < room => i < c
      BY <2>1 DEF Cuts
    <2>201. ce => flag /\ c = G
      BY <2>1, <2>101 DEF Cuts
    <2>3. PICK list, after : list = r.buffer_list /\ after = push_back(list, Bytes(i, c), i, ce)
      OBVIOUS
    <2>4. new = assemble(r, after)
      <3>1. ~(known > Len(Bytes(F, G)) \/ beyond_window(r, F + known))
        BY <1>8, <1>10, <1>11, <1>13
      <3>2. new = assemble(r, push_back(r.buffer_list,
                        cut(SubSeq(Bytes(F, G), known + 1, Len(Bytes(F, G))), room), i,
                        cut_eof(SubSeq(Bytes(F, G), known + 1, Len(Bytes(F, G))), flag, room)))
        BY <1>5, <1>9, <1>10, <3>1 DEF push_substring
      <3> QED
        BY <2>1, <2>101, <2>3, <3>2 DEF Cuts
    <2>5. PICK buffer : buffer = BufferStringOf(i, c, ce)
      OBVIOUS
    <2>6. /\ i <= c /\ T <= i /\ i <= edge /\ c <= far /\ (ce => c = E)
      BY <1>4, <1>7, <1>10, <1>13, <2>2, <2>201
    <2>61. Inside(i, c, E)
      BY <1>4, <1>10, <2>2 DEF Inside
    <2>7. Fits(buffer, T, edge, far, E) /\ Spans(buffer, i, c)
      BY <2>5, <2>6, <2>61, FitsIf
    <2>8. buffer.first = i /\ buffer.str = Bytes(i, c) /\ buffer.eof = ce
      BY <2>5 DEF BufferStringOf
    <2>9. Within(buffer, i, c, T, edge, far, E)
      BY <2>6, <2>61, <2>7, <2>8 DEF Within
    <2>10. Stored(list, T, edge, far, E)
      BY <1>6, <1>7, <2>3
    <2>11. after = push_back(list, buffer.str, buffer.first, buffer.eof)
      BY <2>3, <2>8
    <2>12. /\ Stored(after, T, edge, far, E) /\ after # <<>>
           /\ Keeps(after, list, i, c) /\ Adds(after, list, buffer, i, c)
      BY <2>7, <2>9, <2>10, <2>11, PushBackStored
    <2>13. Stored(after, T, R + C, R + C + C, E)
      BY <1>7, <2>12
    <2>14. PICK N \in Nat :
              AssemblesAt(new, B, C, E, R, N) /\ Progress(r, after, new, T, N)
      <3>1. CanAssemble(r, after, B, C, E, R, T)
        BY <1>4, <2>12, <2>13 DEF CanAssemble
      <3> QED
        BY <2>4, <3>1, AssembleAny
    <2>15. T <= N /\ (r.output.input_end => new.output.input_end)
      BY <2>14 DEF Progress
    <2>16. ASSUME NEW k \in Nat, Covers(r.buffer_list, k)
           PROVE  k < N \/ Covers(new.buffer_list, k)
      BY <2>3, <2>12, <2>14, <2>16, ZenonT(180) DEF Keeps, Progress
    <2>17. ASSUME NEW k \in Nat, k < N \/ Covers(new.buffer_list, k)
           PROVE  k < T \/ Covers(r.buffer_list, k) \/ (F <= k /\ k < G)
      <3>1. k < T \/ Covers(after, k)
        BY <2>14, <2>17 DEF Progress
      <3>2. k < T \/ Covers(list, k) \/ (i <= k /\ k < c)
        BY <2>12, <3>1 DEF Adds
      <3> QED
        BY <1>10, <2>2, <2>3, <3>2
    <2>18. Ends(new, new.buffer_list) => Ends(r, r.buffer_list) \/ flag
      <3>1. Ends(new, new.buffer_list) => r.output.input_end \/ Marked(after)
        BY <2>14 DEF Progress, Ends
      <3>2. Marked(after) => ce \/ Marked(list)
        BY <2>8, <2>12 DEF Adds
      <3> QED
        BY <2>201, <2>3, <3>1, <3>2 DEF Ends
    <2>19. ASSUME T <= F, F < edge, F < G PROVE F < N \/ Covers(new.buffer_list, F)
      <3>1. i = F /\ i < c
        BY <1>7, <1>10, <2>2, <2>19
      <3>2. Covers(after, F)
        BY <2>12, <3>1 DEF Keeps
      <3> QED
        BY <2>14, <3>2 DEF Progress
    <2>20. Pushed(r, new, T, edge, F, G, flag, N)
      BY <2>15, <2>16, <2>17, <2>18, <2>19 DEF Pushed
    <2> QED
      BY <1>3, <1>7, <2>14, <2>20
  <1> QED
    BY <1>12, <1>13

(* A list that fits a window fits a wider one: reading never harms it.     *)
LEMMA StoredWider ==
    ASSUME NEW top \in Nat, NEW edge \in Nat, NEW far \in Nat, NEW end \in Nat,
           NEW nedge \in Nat, NEW nfar \in Nat, edge <= nedge, far <= nfar,
           NEW list, Stored(list, top, edge, far, end)
    PROVE  Stored(list, top, nedge, nfar, end)
  <1>1. list \in Seq(BufferStringRecord(Nat)) /\ Ordered(list)
    BY DEF Stored
  <1>2. ASSUME NEW i \in 1 .. Len(list) PROVE Fits(list[i], top, nedge, nfar, end)
    <2>1. Fits(list[i], top, edge, far, end)
      BY DEF Stored
    <2>2. PICK b : b = list[i]
      OBVIOUS
    <2>3. b.first \in Nat /\ second(b) \in Nat
      BY <1>1, <2>2, ElementType
    <2>4. b.first <= nedge /\ second(b) <= nfar
      BY <2>1, <2>2, <2>3 DEF Fits
    <2> QED
      BY <2>1, <2>2, <2>4 DEF Fits
  <1> QED
    BY <1>1, <1>2 DEF Stored

(* held, the set, and Covers, the predicate, say the same. *)
LEMMA HeldIsCovered ==
    ASSUME NEW r, r.buffer_list \in Seq(BufferStringRecord(Nat))
    PROVE  /\ \A k \in held(r) : k \in Nat /\ Covers(r.buffer_list, k)
           /\ \A k \in Nat : Covers(r.buffer_list, k) => k \in held(r)
  <1>1. PICK l \in Seq(BufferStringRecord(Nat)) : l = r.buffer_list
    OBVIOUS
  <1>2. DOMAIN l = 1 .. Len(l)
    OBVIOUS
  <1>3. held(r) = UNION {l[i].first .. second(l[i]) - 1 : i \in 1 .. Len(l)}
    BY <1>1, <1>2 DEF held
  <1>4. ASSUME NEW k \in held(r) PROVE k \in Nat /\ Covers(l, k)
    <2>1. PICK i \in 1 .. Len(l) : k \in l[i].first .. second(l[i]) - 1
      BY <1>3
    <2>2. PICK f \in Nat, t \in Nat : f = l[i].first /\ t = second(l[i])
      BY ElementType
    <2>3. k \in Nat /\ f <= k /\ k < t
      BY <2>1, <2>2
    <2> QED
      BY <2>2, <2>3 DEF Covers
  <1>5. ASSUME NEW k \in Nat, Covers(l, k) PROVE k \in held(r)
    <2>1. PICK i \in 1 .. Len(l) : l[i].first <= k /\ k < second(l[i])
      BY <1>5 DEF Covers
    <2>2. PICK f \in Nat, t \in Nat : f = l[i].first /\ t = second(l[i])
      BY ElementType
    <2>3. k \in l[i].first .. second(l[i]) - 1
      BY <2>1, <2>2
    <2> QED
      BY <1>3, <2>3
  <1> QED
    BY <1>1, <1>4, <1>5
=============================================================================
