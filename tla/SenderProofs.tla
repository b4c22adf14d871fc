---------------------------- MODULE SenderProofs ----------------------------
(***************************************************************************)
(* Proofs about SenderSpec: a TCPSender of any capacity, initial sequence  *)
(* number, payload size and width of sequence numbers, whose peer          *)
(* acknowledges what it likes with any window below half the circle. The   *)
(* sequence numbers are dealt with by WrappingLemmas.                      *)
(***************************************************************************)
EXTENDS SenderSpec, WrappingLemmas, WellFoundedInduction

USE SMTT(180)

(* Every set of natural numbers that is not empty has a least element: the *)
(* form in which the proofs use induction.                                 *)
LEMMA LeastNumber ==
    ASSUME NEW T \in SUBSET Nat, T # {}
    PROVE  \E i \in T : \A j \in T : i <= j
  <1> DEFINE R == {ss \in Nat \X Nat : ss[1] < ss[2]}
  <1>1. IsWellFoundedOn(R, Nat)
    BY NatLessThanWellFounded DEF OpToRel
  <1>2. PICK i \in T : \A j \in T : <<j, i>> \notin R
    BY <1>1, WFMin, ZenonT(180)
  <1>3. \A j \in T : ~(j < i)
    BY <1>2, ZenonT(180)
  <1> QED
    BY <1>3

(* The segments of the model. *)
SegmentRecord ==
    [seqno : Int, ackno : Int, ack : BOOLEAN, rst : BOOLEAN, syn : BOOLEAN,
     fin : BOOLEAN, win : Int, payload : Seq(Nat)]

(* seg is the segment for the absolute sequence numbers from .. to - 1.    *)
IsSegment(seg, from, to) ==
    /\ seg \in SegmentRecord
    /\ seg.seqno = wrap(from, Isn)
    /\ length_in_sequence_space(seg) = to - from
    /\ \A k \in 1 .. Len(seg.payload) : seg.payload[k] = from + FlagBit(seg.syn) + k - 1
    /\ seg.syn <=> from = 0

(* q holds the segments for lo .. hi - 1, without gap or overlap; mark[i]  *)
(* is where the i-th starts.                                               *)
Queued(q, mark, lo, hi) ==
    /\ lo \in Nat /\ hi \in Nat /\ q \in Seq(SegmentRecord)
    /\ mark[1] = lo /\ mark[Len(q) + 1] = hi
    /\ \A i \in 1 .. Len(q) + 1 : mark[i] \in Nat
    /\ \A i \in 1 .. Len(q) : mark[i] < mark[i + 1] /\ IsSegment(q[i], mark[i], mark[i + 1])
    /\ \A i, j \in 1 .. Len(q) + 1 : i < j => mark[i] < mark[j]

(* Marks that increase from each to the next increase. *)
LEMMA Increasing ==
    ASSUME NEW mark, NEW n \in Nat, \A i \in 1 .. n + 1 : mark[i] \in Nat,
           \A i \in 1 .. n : mark[i] < mark[i + 1]
    PROVE  \A i, j \in 1 .. n + 1 : i < j => mark[i] < mark[j]
  <1> SUFFICES ASSUME NEW i \in 1 .. n + 1, NEW k \in 1 .. n + 1, i < k, ~(mark[i] < mark[k])
               PROVE  FALSE
    OBVIOUS
  <1> DEFINE T == {j \in i + 1 .. n + 1 : ~(mark[i] < mark[j])}
  <1>1. T \in SUBSET Nat /\ k \in T
    OBVIOUS
  <1>2. PICK j \in T : \A l \in T : j <= l
    BY <1>1, LeastNumber, ZenonT(180)
  <1>3. j # i + 1
    BY <1>2
  <1>4. j - 1 \in i + 1 .. n + 1 /\ j - 1 \notin T /\ j - 1 \in 1 .. n
    BY <1>2, <1>3
  <1>5. PICK l \in 1 .. n : l = j - 1 /\ mark[i] < mark[l]
    BY <1>4
  <1>6. mark[l] < mark[l + 1] /\ l + 1 = j /\ mark[i] \in Nat /\ mark[l] \in Nat /\ mark[j] \in Nat
    BY <1>2, <1>5
  <1> QED
    BY <1>2, <1>5, <1>6

(* The recursion of length_of_first adds up the lengths of the first       *)
(* segments: the function it defines exists, and is the only one.          *)
LEMMA SumOfFirst ==
    ASSUME NEW q, NEW n \in Nat, NEW mark,
           \A i \in 1 .. n + 1 : mark[i] \in Nat,
           \A i \in 1 .. n : length_in_sequence_space(q[i]) = mark[i + 1] - mark[i]
    PROVE  length_of_first(q, n) = mark[n + 1] - mark[1]
  <1> DEFINE Sum(f) == f = [i \in 0 .. n |->
                         IF i = 0 THEN 0 ELSE f[i - 1] + length_in_sequence_space(q[i])]
             g == [i \in 0 .. n |-> mark[i + 1] - mark[1]]
  <1>1. PICK total : total = CHOOSE f : Sum(f)
    OBVIOUS
  <1>2. length_of_first(q, n) = total[n]
    BY <1>1 DEF length_of_first
  <1>3. Sum(g)
    <2>1. ASSUME NEW i \in 0 .. n
          PROVE  g[i] = IF i = 0 THEN 0 ELSE g[i - 1] + length_in_sequence_space(q[i])
      OBVIOUS
    <2> QED
      BY <2>1
  <1>4. Sum(total)
    BY <1>1, <1>3, ZenonT(180)
  <1>5. /\ total[0] = 0
        /\ \A i \in 1 .. n : total[i] = total[i - 1] + length_in_sequence_space(q[i])
    BY <1>4
  <1> HIDE DEF Sum, g
  <1> DEFINE T == {i \in 0 .. n : total[i] # mark[i + 1] - mark[1]}
  <1>6. T = {}
    <2> SUFFICES ASSUME T # {} PROVE FALSE
      OBVIOUS
    <2>1. T \in SUBSET Nat
      OBVIOUS
    <2>2. PICK i \in T : \A j \in T : i <= j
      BY <2>1, LeastNumber, ZenonT(180)
    <2>3. i # 0
      BY <1>5, <2>2
    <2>4. i - 1 \in 0 .. n /\ i - 1 \notin T
      BY <2>2, <2>3
    <2>5. i \in 1 .. n /\ total[i - 1] = mark[i] - mark[1]
      BY <2>2, <2>3, <2>4
    <2>6. total[i] = mark[i + 1] - mark[1]
      <3>1. mark[i] \in Nat /\ mark[i + 1] \in Nat /\ mark[1] \in Nat
        BY <2>5
      <3> QED
        BY <1>5, <2>5, <3>1
    <2> QED
      BY <2>2, <2>6
  <1> QED
    BY <1>2, <1>6

(* The first n segments of a queue hold the numbers up to the mark after   *)
(* them.                                                                   *)
LEMMA MarkOfFirst ==
    ASSUME NEW q, NEW mark, NEW lo, NEW hi, Queued(q, mark, lo, hi), NEW n \in 0 .. Len(q)
    PROVE  length_of_first(q, n) = mark[n + 1] - lo
  <1>1. PICK size \in Nat : size = Len(q)
    BY DEF Queued
  <1>2. n \in Nat /\ n <= size
    BY <1>1
  <1>3. \A i \in 1 .. n + 1 : mark[i] \in Nat
    BY <1>1, <1>2 DEF Queued
  <1>4. \A i \in 1 .. n : length_in_sequence_space(q[i]) = mark[i + 1] - mark[i]
    BY <1>1, <1>2 DEF Queued, IsSegment
  <1>5. mark[1] = lo
    BY DEF Queued
  <1>6. length_of_first(q, n) = mark[n + 1] - mark[1]
    BY <1>2, <1>3, <1>4, SumOfFirst
  <1> QED
    BY <1>5, <1>6

(* What is appended to the queue continues it. *)
LEMMA JoinQueues ==
    ASSUME NEW q, NEW mark, NEW lo, NEW mid, Queued(q, mark, lo, mid),
           NEW r, NEW rmark, NEW hi, Queued(r, rmark, mid, hi)
    PROVE  \E m : Queued(q \o r, m, lo, hi)
  <1>1. PICK a \in Nat, b \in Nat : a = Len(q) /\ b = Len(r)
    BY DEF Queued
  <1>2. q \in Seq(SegmentRecord) /\ r \in Seq(SegmentRecord)
    BY DEF Queued
  <1>3. /\ q \o r \in Seq(SegmentRecord) /\ Len(q \o r) = a + b
        /\ \A i \in 1 .. a : (q \o r)[i] = q[i]
        /\ \A i \in a + 1 .. a + b : (q \o r)[i] = r[i - a]
    BY <1>1, <1>2
  <1> DEFINE m == [i \in 1 .. a + b + 1 |-> IF i <= a THEN mark[i] ELSE rmark[i - a]]
  <1>4. /\ \A i \in 1 .. a + 1 : mark[i] \in Nat
        /\ \A i \in 1 .. b + 1 : rmark[i] \in Nat
        /\ mark[1] = lo /\ mark[a + 1] = mid /\ rmark[1] = mid /\ rmark[b + 1] = hi
        /\ \A i, j \in 1 .. a + 1 : i < j => mark[i] < mark[j]
        /\ \A i, j \in 1 .. b + 1 : i < j => rmark[i] < rmark[j]
        /\ lo \in Nat /\ mid \in Nat /\ hi \in Nat
    BY <1>1 DEF Queued
  <1>5. /\ \A i \in 1 .. a + 1 : m[i] = mark[i]
        /\ \A i \in a + 1 .. a + b + 1 : m[i] = rmark[i - a]
    <2>1. ASSUME NEW i \in 1 .. a + 1 PROVE m[i] = mark[i]
      <3>1. CASE i <= a
        BY <3>1
      <3>2. CASE i = a + 1
        <4>1. m[i] = rmark[i - a] /\ i - a = 1
          BY <3>2
        <4> QED
          BY <1>4, <3>2, <4>1
      <3> QED
        BY <3>1, <3>2
    <2>2. ASSUME NEW i \in a + 1 .. a + b + 1 PROVE m[i] = rmark[i - a]
      OBVIOUS
    <2> QED
      BY <2>1, <2>2
  <1> HIDE DEF m
  <1>6. \A i \in 1 .. a + b + 1 : m[i] \in Nat
    <2> SUFFICES ASSUME NEW i \in 1 .. a + b + 1 PROVE m[i] \in Nat
      OBVIOUS
    <2>1. CASE i <= a
      BY <1>4, <1>5, <2>1
    <2>2. CASE ~(i <= a)
      <3>1. i \in a + 1 .. a + b + 1 /\ i - a \in 1 .. b + 1
        BY <2>2
      <3> QED
        BY <1>4, <1>5, <3>1
    <2> QED
      BY <2>1, <2>2
  <1>7. ASSUME NEW i \in 1 .. a + b
        PROVE  IsSegment((q \o r)[i], m[i], m[i + 1])
    <2>1. CASE i <= a
      <3>1. i \in 1 .. a /\ i + 1 \in 1 .. a + 1 /\ i \in 1 .. a + 1
        BY <2>1
      <3>2. IsSegment(q[i], mark[i], mark[i + 1])
        BY <1>1, <3>1 DEF Queued
      <3> QED
        BY <1>3, <1>5, <3>1, <3>2
    <2>2. CASE ~(i <= a)
      <3>1. i \in a + 1 .. a + b /\ i \in a + 1 .. a + b + 1 /\ i + 1 \in a + 1 .. a + b + 1
        BY <2>2
      <3>2. PICK k : k = i - a
        OBVIOUS
      <3>3. k \in 1 .. b /\ (i + 1) - a = k + 1
        BY <3>1, <3>2
      <3>4. IsSegment(r[k], rmark[k], rmark[k + 1])
        BY <1>1, <3>3 DEF Queued
      <3>5. (q \o r)[i] = r[k] /\ m[i] = rmark[k] /\ m[i + 1] = rmark[k + 1]
        BY <1>3, <1>5, <3>1, <3>2, <3>3, ZenonT(180)
      <3> QED
        BY <3>4, <3>5, ZenonT(180)
    <2> QED
      BY <2>1, <2>2, ZenonT(180)
  <1>8. ASSUME NEW i \in 1 .. a + b + 1, NEW j \in 1 .. a + b + 1, i < j
        PROVE  m[i] < m[j]
    <2>1. CASE j <= a + 1
      <3>1. i \in 1 .. a + 1 /\ j \in 1 .. a + 1
        BY <1>8, <2>1
      <3> QED
        BY <1>4, <1>5, <1>8, <3>1
    <2>2. CASE i >= a + 1
      <3>1. i \in a + 1 .. a + b + 1 /\ j \in a + 1 .. a + b + 1
        BY <1>8, <2>2
      <3>2. i - a \in 1 .. b + 1 /\ j - a \in 1 .. b + 1 /\ i - a < j - a
        BY <1>8, <3>1
      <3> QED
        BY <1>4, <1>5, <3>1, <3>2
    <2>3. CASE i < a + 1 /\ j > a + 1
      <3>1. i \in 1 .. a + 1 /\ a + 1 \in 1 .. a + 1 /\ j \in a + 1 .. a + b + 1
        BY <1>8, <2>3
      <3>2. mark[i] < mid
        BY <1>4, <2>3, <3>1
      <3>3. j - a \in 1 .. b + 1 /\ 1 < j - a /\ 1 \in 1 .. b + 1
        BY <2>3, <3>1
      <3>4. mid < rmark[j - a]
        BY <1>4, <3>3
      <3>5. mark[i] \in Nat /\ rmark[j - a] \in Nat
        BY <1>4, <3>1, <3>3
      <3> QED
        BY <1>4, <1>5, <3>1, <3>2, <3>4, <3>5
    <2> QED
      BY <2>1, <2>2, <2>3
  <1>9. m[1] = lo /\ m[a + b + 1] = hi
    <2>1. 1 \in 1 .. a + 1 /\ a + b + 1 \in a + 1 .. a + b + 1 /\ (a + b + 1) - a = b + 1
      OBVIOUS
    <2> QED
      BY <1>4, <1>5, <2>1
  <1>10. \A i \in 1 .. a + b : m[i] < m[i + 1]
    BY <1>8
  <1> QED
    <2>1. lo \in Nat /\ hi \in Nat
      BY <1>4
    <2>2. Queued(q \o r, m, lo, hi)
      BY <1>3, <1>6, <1>7, <1>8, <1>9, <1>10, <2>1 DEF Queued
    <2> QED
      BY <2>2

(* What is left after the first n segments are removed starts at their     *)
(* end.                                                                    *)
LEMMA DropQueue ==
    ASSUME NEW q, NEW mark, NEW lo, NEW hi, Queued(q, mark, lo, hi), NEW n \in 0 .. Len(q)
    PROVE  /\ \E m : Queued(SubSeq(q, n + 1, Len(q)), m, mark[n + 1], hi)
           /\ Len(SubSeq(q, n + 1, Len(q))) = Len(q) - n
           /\ \A i \in 1 .. Len(q) - n : SubSeq(q, n + 1, Len(q))[i] = q[n + i]
  <1>1. PICK a \in Nat, b \in Nat : a = Len(q) /\ b = a - n
    BY DEF Queued
  <1>2. q \in Seq(SegmentRecord)
    BY DEF Queued
  <1>3. PICK rest : rest = SubSeq(q, n + 1, Len(q))
    BY ZenonT(180)
  <1>4. /\ rest \in Seq(SegmentRecord) /\ Len(rest) = b
        /\ \A i \in 1 .. b : rest[i] = q[n + i]
    BY <1>1, <1>2, <1>3
  <1> DEFINE m == [i \in 1 .. b + 1 |-> mark[n + i]]
  <1>5. \A i \in 1 .. b + 1 : m[i] = mark[n + i] /\ n + i \in 1 .. a + 1
    BY <1>1
  <1> HIDE DEF m
  <1>6. \A i \in 1 .. a + 1 : mark[i] \in Nat
    BY <1>1 DEF Queued
  <1>7. ASSUME NEW i \in 1 .. b
        PROVE  IsSegment(rest[i], m[i], m[i + 1])
    <2>1. n + i \in 1 .. a /\ i + 1 \in 1 .. b + 1 /\ i \in 1 .. b + 1 /\ n + (i + 1) = (n + i) + 1
      BY <1>1
    <2>2. IsSegment(q[n + i], mark[n + i], mark[(n + i) + 1])
      BY <1>1, <2>1 DEF Queued
    <2>3. rest[i] = q[n + i] /\ m[i] = mark[n + i] /\ m[i + 1] = mark[(n + i) + 1]
      BY <1>4, <1>5, <2>1
    <2> QED
      BY <2>2, <2>3, ZenonT(180)
  <1>8. ASSUME NEW i \in 1 .. b + 1, NEW j \in 1 .. b + 1, i < j
        PROVE  m[i] < m[j]
    <2>1. n + i \in 1 .. a + 1 /\ n + j \in 1 .. a + 1 /\ n + i < n + j
      BY <1>5, <1>8, <1>1
    <2>2. mark[n + i] < mark[n + j]
      BY <1>1, <2>1 DEF Queued
    <2> QED
      BY <1>5, <2>2
  <1>9. m[1] = mark[n + 1] /\ m[b + 1] = hi
    <2>1. 1 \in 1 .. b + 1 /\ b + 1 \in 1 .. b + 1 /\ n + (b + 1) = a + 1
      BY <1>1
    <2>2. mark[a + 1] = hi
      BY <1>1 DEF Queued
    <2> QED
      BY <1>5, <2>1, <2>2
  <1>10. \A i \in 1 .. b : m[i] < m[i + 1]
    BY <1>8
  <1>11. \A i \in 1 .. b + 1 : m[i] \in Nat
    BY <1>5, <1>6
  <1>12. mark[n + 1] \in Nat /\ hi \in Nat
    BY <1>1, <1>6 DEF Queued
  <1>13. Queued(rest, m, mark[n + 1], hi)
    BY <1>4, <1>7, <1>8, <1>9, <1>10, <1>11, <1>12 DEF Queued
  <1> QED
    BY <1>1, <1>3, <1>4, <1>13

(* What the assumptions say of the constants. *)
LEMMA Constants ==
    /\ Capacity \in Nat /\ MaxBytes \in Nat /\ MaxRetx \in Nat
    /\ Half \in Nat /\ Half > 1 /\ Isn \in WrappingInt32 /\ Isn \in Int
    /\ MaxPayloadSize \in Nat \ {0} /\ InitialRto \in Nat \ {0}
    /\ \A n \in Nat : n <= MaxBytes + 2 => n \in AbsoluteSeqno
    /\ \A w \in Windows : w \in Nat /\ w < Half
  <1>1. Modulus \in Nat /\ Half \in Nat
    BY Widths
  <1>2. Isn \in Int
    BY <1>1, SenderAssumption DEF WrappingInt32
  <1>3. ASSUME NEW n \in Nat, n <= MaxBytes + 2 PROVE n \in AbsoluteSeqno
    <2>1. PICK w : w = Wide - 1
      OBVIOUS
    <2>2. Wide \in Int
      BY <1>1 DEF Wide
    <2> QED
      BY <1>3, <2>1, <2>2, SenderAssumption DEF AbsoluteSeqno
  <1> QED
    BY <1>1, <1>2, <1>3, SenderAssumption, SenderConfigAssumption

(* A wrapped number is a WrappingInt32. *)
LEMMA WrapType ==
    ASSUME NEW n \in Nat
    PROVE  wrap(n, Isn) \in WrappingInt32 /\ wrap(n, Isn) \in Int
  <1>1. Modulus \in Nat \ {0} /\ Isn + n \in Int
    BY Widths, Constants
  <1>2. (Isn + n) % Modulus \in 0 .. Modulus - 1
    BY <1>1, DivMod, ZenonT(180)
  <1> QED
    BY <1>2, Widths DEF wrap, WrappingInt32

(* ack_received computes the absolute end of a segment from its 32-bit     *)
(* number, and gets it right when the segment is less than half the circle *)
(* from next_seqno.                                                        *)
LEMMA Decode ==
    ASSUME NEW s, s.isn = Isn, NEW next \in Nat, s.next_seqno = next, next <= MaxBytes + 2,
           NEW seg, NEW from \in Nat, NEW to \in Nat, IsSegment(seg, from, to),
           from <= MaxBytes + 2, Distance(from, next) < Half
    PROVE  segment_end(s, seg) = to
  <1>1. from \in AbsoluteSeqno /\ next \in AbsoluteSeqno
    BY Constants
  <1>2. unwrap(wrap(from, Isn), Isn, next) = from
    BY <1>1, Constants, UnwrapWrap
  <1>3. seg.seqno = wrap(from, Isn) /\ length_in_sequence_space(seg) = to - from
    BY DEF IsSegment
  <1>4. segment_end(s, seg) = from + (to - from)
    BY <1>2, <1>3 DEF segment_end
  <1> QED
    BY <1>4

-----------------------------------------------------------------------------
(* Cutting data into segments. *)

(* How many segments data of length n is cut into. *)
Pieces(n) == IF n = 0 THEN 1 ELSE (n + MaxPayloadSize - 1) \div MaxPayloadSize

(* They are as many as are needed, and no more. *)
LEMMA PiecesCover ==
    ASSUME NEW n \in Nat
    PROVE  /\ Pieces(n) \in Nat \ {0}
           /\ (Pieces(n) - 1) * MaxPayloadSize <= n
           /\ n <= Pieces(n) * MaxPayloadSize
           /\ n > 0 => (Pieces(n) - 1) * MaxPayloadSize < n
  <1>1. PICK m \in Nat \ {0} : m = MaxPayloadSize
    BY Constants
  <1>2. CASE n = 0
    BY <1>1, <1>2 DEF Pieces
  <1>3. CASE n > 0
    <2>1. PICK d \in Int, x \in Int, r \in Int :
             /\ d = (n + m - 1) \div m /\ x = d * m /\ r \in 0 .. m - 1
             /\ n + m - 1 = x + r
      <3>1. n + m - 1 \in Int
        OBVIOUS
      <3>2. /\ (n + m - 1) % m \in 0 .. m - 1
            /\ (n + m - 1) \div m \in Int
            /\ n + m - 1 = (((n + m - 1) \div m) * m) + ((n + m - 1) % m)
        BY <3>1, DivMod, ZenonT(180)
      <3>3. PICK d \in Int : d = (n + m - 1) \div m
        BY <3>2
      <3>4. PICK r \in Int : r = (n + m - 1) % m /\ r \in 0 .. m - 1
        BY <3>2
      <3>5. PICK x \in Int : x = d * m
        BY Z3
      <3> QED
        BY <3>2, <3>3, <3>4, <3>5
    <2>2. d >= 1
      <3> SUFFICES ASSUME d <= 0 PROVE FALSE
        BY <2>1
      <3>1. x <= 0
        BY <2>1, Multiples, Z3
      <3> QED
        BY <1>3, <2>1, <3>1
    <2>3. (d - 1) * m = x - m
      BY <2>1, Multiples
    <2>4. Pieces(n) = d
      BY <1>1, <1>3, <2>1 DEF Pieces
    <2>5. x - m < n /\ n <= x
      BY <2>1
    <2> QED
      BY <1>1, <2>1, <2>2, <2>3, <2>4, <2>5
  <1> QED
    BY <1>2, <1>3

(* The i-th segment that data is cut into. *)
Piece(s, data, fin, i) ==
    [EmptySegment EXCEPT
        !.seqno = piece_seqno(s, i, needs_syn(s)),
        !.syn = needs_syn(s),
        !.fin = fin /\ i = Pieces(Len(data)),
        !.payload = SubSeq(data, (i - 1) * MaxPayloadSize + 1,
                           Smaller((i - 1) * MaxPayloadSize + MaxPayloadSize, Len(data)))]

(* make_segments makes these pieces. *)
LEMMA MadeOfPieces ==
    ASSUME NEW s, NEW data \in Seq(Nat), NEW fin
    PROVE  make_segments(s, data, fin) = [i \in 1 .. Pieces(Len(data)) |-> Piece(s, data, fin, i)]
  <1>1. PICK pieces : pieces = Pieces(Len(data))
    OBVIOUS
  <1>2. pieces = IF data = <<>> THEN 1 ELSE (Len(data) + MaxPayloadSize - 1) \div MaxPayloadSize
    <2>1. data = <<>> <=> Len(data) = 0
      OBVIOUS
    <2> QED
      BY <1>1, <2>1, ZenonT(180) DEF Pieces
  <1> QED
    BY <1>1, <1>2, ZenonT(180) DEF make_segments, Piece

(* The fields of a segment without acknowledgment. *)
SegmentWith(seg, seqno, syn, fin, payload) ==
    /\ seqno \in Int /\ syn \in BOOLEAN /\ fin \in BOOLEAN /\ payload \in Seq(Nat)
    /\ seg = [EmptySegment EXCEPT !.seqno = seqno, !.syn = syn, !.fin = fin, !.payload = payload]

(* A segment with such fields is a segment of the model. *)
LEMMA SegmentType ==
    ASSUME NEW seg, NEW seqno, NEW syn, NEW fin, NEW payload,
           SegmentWith(seg, seqno, syn, fin, payload)
    PROVE  /\ seg \in SegmentRecord
           /\ seg.seqno = seqno /\ seg.syn = syn /\ seg.fin = fin /\ seg.payload = payload
  <1>1. PICK h \in BOOLEAN : h = FALSE
    BY ZenonT(180)
  <1>2. EmptySegment = [seqno |-> 0, ackno |-> 0, ack |-> h, rst |-> h, syn |-> h,
                        fin |-> h, win |-> 0, payload |-> <<>>]
    BY <1>1, ZenonT(180) DEF EmptySegment
  <1>3. seg = [seqno |-> seqno, ackno |-> 0, ack |-> h, rst |-> h, syn |-> syn,
               fin |-> fin, win |-> 0, payload |-> payload]
    BY <1>2, ZenonT(180) DEF SegmentWith
  <1> QED
    BY <1>3 DEF SegmentWith, SegmentRecord

(* Where the i-th piece starts. *)
PieceStart(next, i) == next + ((i - 1) * MaxPayloadSize)

(* data can be cut and sent from next on. *)
MayCut(s, data, fin, next) ==
    /\ next \in Nat \ {0} /\ s.isn = Isn /\ s.next_seqno = next /\ s.is_syn_received = TRUE
    /\ data \in Seq(Nat) /\ \A k \in 1 .. Len(data) : data[k] = next + k - 1
    /\ fin \in BOOLEAN /\ (Len(data) = 0 => fin = TRUE)

(* Each piece is the segment for its numbers, and only the last carries    *)
(* the FIN.                                                                *)
LEMMA OnePiece ==
    ASSUME NEW s, NEW data, NEW fin, NEW next, MayCut(s, data, fin, next),
           NEW i \in 1 .. Pieces(Len(data))
    PROVE  LET last == i = Pieces(Len(data))
               to == IF last THEN next + Len(data) + FlagBit(fin) ELSE PieceStart(next, i + 1)
               seg == Piece(s, data, fin, i)
           IN  /\ PieceStart(next, i) \in Nat /\ to \in Nat /\ PieceStart(next, i) < to
               /\ IsSegment(seg, PieceStart(next, i), to)
               /\ seg.fin = (fin /\ last)
  <1>1. PICK n \in Nat, d \in Nat \ {0}, m \in Nat \ {0}, F \in 0 .. 1, N \in Nat \ {0} :
           n = Len(data) /\ d = Pieces(n) /\ m = MaxPayloadSize /\ F = FlagBit(fin) /\ N = next
    <2>1. PICK n \in Nat : n = Len(data)
      BY DEF MayCut
    <2>2. PICK d \in Nat \ {0} : d = Pieces(n)
      BY PiecesCover
    <2>3. PICK m \in Nat \ {0} : m = MaxPayloadSize
      BY Constants
    <2>4. PICK F \in 0 .. 1 : F = FlagBit(fin)
      BY DEF FlagBit
    <2>5. PICK N \in Nat \ {0} : N = next
      BY DEF MayCut
    <2> QED
      BY <2>1, <2>2, <2>3, <2>4, <2>5
  <1>2. PICK x \in Nat : x = (i - 1) * m
    <2>1. i - 1 \in Nat
      BY <1>1
    <2> QED
      BY <2>1, Z3
  <1>3. /\ n <= d * m /\ (d - 1) * m <= n /\ (n > 0 => (d - 1) * m < n)
    BY <1>1, PiecesCover
  <1>4. ((i + 1) - 1) * m = x + m /\ i * m = x + m
    BY <1>1, <1>2, Multiples, Z3
  <1>5. i # d => x + m <= n
    <2> SUFFICES ASSUME i # d PROVE x + m <= n
      OBVIOUS
    <2>1. i <= d - 1 /\ i \in Int /\ d - 1 \in Int
      BY <1>1
    <2>2. i * m <= (d - 1) * m
      BY <2>1, Multiples, Z3
    <2> QED
      BY <1>3, <1>4, <2>2, Z3
  <1>6. i = d => n <= x + m /\ x <= n /\ (n > 0 => x < n)
    BY <1>2, <1>3, <1>4
  <1>7. PICK y \in Nat : y = Smaller(x + m, n)
    BY DEF Smaller
  <1>8. x <= y /\ y <= n /\ (i # d => y = x + m) /\ (i = d => y = n)
    BY <1>5, <1>6, <1>7 DEF Smaller
  <1>9. PICK p \in Seq(Nat) :
           /\ p = SubSeq(data, x + 1, y) /\ Len(p) = y - x
           /\ \A k \in 1 .. y - x : p[k] = (N + x) + k - 1
    <2>1. data \in Seq(Nat) /\ \A k \in 1 .. n : data[k] = N + k - 1
      BY <1>1 DEF MayCut
    <2>2. PICK p : p = SubSeq(data, x + 1, y)
      BY ZenonT(180)
    <2>3. p \in Seq(Nat) /\ Len(p) = y - x /\ \A k \in 1 .. y - x : p[k] = data[x + k]
      BY <1>1, <1>8, <2>1, <2>2
    <2>4. ASSUME NEW k \in 1 .. y - x PROVE p[k] = (N + x) + k - 1
      <3>1. x + k \in 1 .. n
        BY <1>8
      <3>2. data[x + k] = N + (x + k) - 1
        BY <2>1, <3>1
      <3> QED
        BY <2>3, <3>2
    <2> QED
      BY <2>2, <2>3, <2>4, ZenonT(180)
  <1>10. PICK from \in Nat : from = PieceStart(next, i) /\ from = N + x
    BY <1>1, <1>2 DEF PieceStart
  <1>11. PICK to \in Nat :
            /\ to = IF i = d THEN N + n + F ELSE PieceStart(next, i + 1)
            /\ to = from + (y - x) + (IF i = d THEN F ELSE 0)
    <2>1. PieceStart(next, i + 1) = N + (x + m)
      BY <1>1, <1>4 DEF PieceStart
    <2>2. CASE i = d
      <3>1. N + n + F \in Nat /\ N + n + F = from + (y - x) + F
        BY <1>8, <1>10, <2>2
      <3> QED
        BY <2>2, <3>1
    <2>3. CASE i # d
      <3>1. N + (x + m) \in Nat /\ N + (x + m) = from + (y - x) + 0
        BY <1>8, <1>10, <2>3
      <3> QED
        BY <2>1, <2>3, <3>1
    <2> QED
      BY <2>2, <2>3
  <1>12. from < to
    <2>1. CASE i # d
      BY <1>8, <1>11, <2>1
    <2>2. CASE i = d /\ n > 0
      BY <1>6, <1>8, <1>11, <2>2
    <2>3. CASE i = d /\ n = 0
      <3>1. F = 1
        BY <1>1, <2>3 DEF MayCut, FlagBit
      <3> QED
        BY <1>8, <1>11, <2>3, <3>1
    <2> QED
      BY <2>1, <2>2, <2>3
  <1>13. PICK seg : seg = Piece(s, data, fin, i)
    OBVIOUS
  <1>14. PICK hasSyn \in BOOLEAN, hasFin \in BOOLEAN, seqno \in Int :
            /\ hasSyn = FALSE /\ hasFin = (fin /\ i = d) /\ seqno = wrap(from, Isn)
    BY <1>10, WrapType, ZenonT(180)
  <1>15. needs_syn(s) = hasSyn
    BY <1>14 DEF MayCut, needs_syn
  <1>16. piece_seqno(s, i, needs_syn(s)) = seqno
    <2>1. needs_syn(s) = FALSE
      BY <1>14, <1>15
    <2>2. FlagBit(needs_syn(s)) = 0
      BY <2>1 DEF FlagBit
    <2>3. s.next_seqno = N /\ s.isn = Isn
      BY <1>1 DEF MayCut
    <2>4. N + (i - 1) * (MaxPayloadSize + 0) = from
      BY <1>1, <1>2, <1>10
    <2> QED
      BY <1>14, <2>2, <2>3, <2>4 DEF piece_seqno
  <1>17. seg = [EmptySegment EXCEPT !.seqno = seqno, !.syn = hasSyn, !.fin = hasFin, !.payload = p]
    <2>1. SubSeq(data, (i - 1) * MaxPayloadSize + 1,
                 Smaller((i - 1) * MaxPayloadSize + MaxPayloadSize, Len(data))) = p
      BY <1>1, <1>2, <1>7, <1>9
    <2>2. (fin /\ i = Pieces(Len(data))) = hasFin
      BY <1>1, <1>14
    <2> QED
      BY <1>13, <1>15, <1>16, <2>1, <2>2, ZenonT(180) DEF Piece
  <1>18. /\ seg \in SegmentRecord
         /\ seg.seqno = seqno /\ seg.syn = hasSyn /\ seg.fin = hasFin /\ seg.payload = p
    <2>1. SegmentWith(seg, seqno, hasSyn, hasFin, p)
      BY <1>9, <1>14, <1>17, ZenonT(180) DEF SegmentWith
    <2> QED
      BY <2>1, SegmentType, ZenonT(180)
  <1>19. IsSegment(seg, from, to)
    <2>1. length_in_sequence_space(seg) = to - from
      <3>1. (IF seg.syn THEN 1 ELSE 0) = 0
        BY <1>14, <1>18
      <3>2. (IF seg.fin THEN 1 ELSE 0) = IF i = d THEN F ELSE 0
        BY <1>1, <1>14, <1>18, ZenonT(180) DEF FlagBit
      <3>3. length_in_sequence_space(seg) = Len(p) + 0 + (IF i = d THEN F ELSE 0)
        BY <1>18, <3>1, <3>2, ZenonT(180) DEF length_in_sequence_space
      <3> QED
        BY <1>1, <1>8, <1>9, <1>11, <3>3
    <2>2. FlagBit(seg.syn) = 0
      BY <1>14, <1>18 DEF FlagBit
    <2>3. \A k \in 1 .. Len(seg.payload) : seg.payload[k] = from + FlagBit(seg.syn) + k - 1
      <3>1. seg.payload = p
        BY <1>18, ZenonT(180)
      <3>2. \A k \in 1 .. Len(p) : p[k] = from + 0 + k - 1
        BY <1>9, <1>10
      <3> QED
        BY <2>2, <3>1, <3>2, ZenonT(180)
    <2>4. seg.syn <=> from = 0
      BY <1>10, <1>14, <1>18
    <2> QED
      BY <1>14, <1>18, <2>1, <2>3, <2>4 DEF IsSegment
  <1>20. seg.fin = (fin /\ i = Pieces(Len(data)))
    BY <1>1, <1>14, <1>18
  <1>21. (IF i = Pieces(Len(data)) THEN next + Len(data) + FlagBit(fin) ELSE PieceStart(next, i + 1)) = to
    BY <1>1, <1>11
  <1> QED
    BY <1>10, <1>12, <1>13, <1>19, <1>20, <1>21

(* Cutting data (and a FIN) makes segments for the numbers from next_seqno *)
(* on, without gap or overlap.                                             *)
LEMMA CutData ==
    ASSUME NEW s, NEW data, NEW fin, NEW next, MayCut(s, data, fin, next)
    PROVE  LET segs == make_segments(s, data, fin)
           IN  /\ \E m : Queued(segs, m, next, next + Len(data) + FlagBit(fin))
               /\ Len(segs) \in Nat \ {0}
               /\ \A i \in 1 .. Len(segs) : segs[i].fin = (fin /\ i = Len(segs))
  <1>1. PICK n \in Nat, d \in Nat \ {0}, F \in 0 .. 1, N \in Nat \ {0} :
           n = Len(data) /\ d = Pieces(n) /\ F = FlagBit(fin) /\ N = next
    <2>1. PICK n \in Nat : n = Len(data)
      BY DEF MayCut
    <2>2. PICK d \in Nat \ {0} : d = Pieces(n)
      BY PiecesCover
    <2>3. PICK F \in 0 .. 1 : F = FlagBit(fin)
      BY DEF FlagBit
    <2>4. PICK N \in Nat \ {0} : N = next
      BY DEF MayCut
    <2> QED
      BY <2>1, <2>2, <2>3, <2>4
  <1>2. PICK segs : segs = [i \in 1 .. d |-> Piece(s, data, fin, i)]
    BY ZenonT(180)
  <1>3. make_segments(s, data, fin) = segs
    <2>1. data \in Seq(Nat) /\ Pieces(Len(data)) = d
      BY <1>1 DEF MayCut
    <2>2. make_segments(s, data, fin) = [i \in 1 .. Pieces(Len(data)) |-> Piece(s, data, fin, i)]
      BY <2>1, MadeOfPieces
    <2> QED
      BY <1>2, <2>1, <2>2, ZenonT(180)
  <1> DEFINE mark == [i \in 1 .. d + 1 |-> IF i = d + 1 THEN N + n + F ELSE PieceStart(next, i)]
  <1>4. /\ \A i \in 1 .. d : mark[i] = PieceStart(next, i)
        /\ mark[d + 1] = N + n + F
    OBVIOUS
  <1>5. \A i \in 1 .. d : mark[i + 1] = IF i = d THEN N + n + F ELSE PieceStart(next, i + 1)
    OBVIOUS
  <1> HIDE DEF mark
  <1>6. ASSUME NEW i \in 1 .. d
        PROVE  /\ mark[i] \in Nat /\ mark[i + 1] \in Nat /\ mark[i] < mark[i + 1]
               /\ IsSegment(segs[i], mark[i], mark[i + 1])
               /\ segs[i].fin = (fin /\ i = d)
    <2>1. PICK to : to = IF i = Pieces(Len(data)) THEN next + Len(data) + FlagBit(fin)
                         ELSE PieceStart(next, i + 1)
      OBVIOUS
    <2>2. PICK seg : seg = Piece(s, data, fin, i)
      OBVIOUS
    <2>3. i \in 1 .. Pieces(Len(data))
      BY <1>1
    <2>4. /\ PieceStart(next, i) \in Nat /\ to \in Nat /\ PieceStart(next, i) < to
          /\ IsSegment(seg, PieceStart(next, i), to)
          /\ seg.fin = (fin /\ i = Pieces(Len(data)))
      BY <2>1, <2>2, <2>3, OnePiece, ZenonT(180)
    <2>5. segs[i] = seg /\ mark[i] = PieceStart(next, i) /\ mark[i + 1] = to
      BY <1>1, <1>2, <1>4, <1>5, <2>1, <2>2
    <2>6. Pieces(Len(data)) = d
      BY <1>1
    <2> QED
      BY <2>4, <2>5, <2>6, ZenonT(180)
  <1>7. \A i \in 1 .. d + 1 : mark[i] \in Nat
    <2>1. mark[d + 1] \in Nat
      BY <1>1, <1>4
    <2>2. ASSUME NEW i \in 1 .. d + 1, i # d + 1 PROVE mark[i] \in Nat
      BY <1>6, <2>2
    <2> QED
      BY <2>1, <2>2
  <1>8. \A i, j \in 1 .. d + 1 : i < j => mark[i] < mark[j]
    BY <1>6, <1>7, Increasing, ZenonT(180)
  <1>9. mark[1] = N
    <2>1. (1 - 1) * MaxPayloadSize = 0
      BY Constants
    <2>2. PieceStart(next, 1) = N
      BY <1>1, <2>1 DEF PieceStart
    <2> QED
      BY <1>4, <2>2
  <1>10. segs \in Seq(SegmentRecord) /\ Len(segs) = d
    <2>1. \A i \in 1 .. d : segs[i] \in SegmentRecord
      BY <1>6 DEF IsSegment
    <2> QED
      BY <1>2, <2>1
  <1>11. N + n + F \in Nat /\ N \in Nat
    OBVIOUS
  <1>12. Queued(segs, mark, N, N + n + F)
    BY <1>4, <1>6, <1>7, <1>8, <1>9, <1>10, <1>11 DEF Queued
  <1> QED
    BY <1>1, <1>3, <1>6, <1>10, <1>12

(* The SYN has not been sent. *)
MayConnect(s) == s.isn = Isn /\ s.next_seqno = 0 /\ s.is_syn_received = FALSE

(* The SYN is one segment, for number 0. *)
LEMMA CutSyn ==
    ASSUME NEW s, MayConnect(s)
    PROVE  LET segs == make_segments(s, <<>>, FALSE)
           IN  /\ \E m : Queued(segs, m, 0, 1)
               /\ Len(segs) = 1
               /\ segs[1].fin = FALSE
  <1>1. PICK data \in Seq(Nat) : data = <<>> /\ Len(data) = 0
    <2>1. <<>> \in Seq(Nat) /\ Len(<<>>) = 0
      OBVIOUS
    <2> QED
      BY <2>1, ZenonT(180)
  <1>2. Pieces(Len(data)) = 1
    BY <1>1 DEF Pieces
  <1>3. PICK segs : segs = [i \in 1 .. 1 |-> Piece(s, data, FALSE, i)]
    BY ZenonT(180)
  <1>4. make_segments(s, data, FALSE) = segs
    <2>1. make_segments(s, data, FALSE) = [i \in 1 .. Pieces(Len(data)) |-> Piece(s, data, FALSE, i)]
      BY MadeOfPieces, ZenonT(180)
    <2> QED
      BY <1>2, <1>3, <2>1, ZenonT(180)
  <1>5. PICK hasSyn \in BOOLEAN, hasFin \in BOOLEAN, seqno \in Int :
           /\ hasSyn = TRUE /\ hasFin = FALSE /\ seqno = wrap(0, Isn)
    BY WrapType, ZenonT(180)
  <1>6. needs_syn(s) = hasSyn
    BY <1>5, ZenonT(180) DEF MayConnect, needs_syn
  <1>7. piece_seqno(s, 1, needs_syn(s)) = seqno
    <2>1. PICK b \in Int : b = MaxPayloadSize + FlagBit(needs_syn(s))
      BY Constants DEF FlagBit
    <2>2. 0 + (1 - 1) * b = 0
      OBVIOUS
    <2> QED
      BY <1>5, <2>1, <2>2 DEF piece_seqno, MayConnect
  <1>8. PICK seg : seg = Piece(s, data, FALSE, 1)
    BY ZenonT(180)
  <1>9. seg = [EmptySegment EXCEPT !.seqno = seqno, !.syn = hasSyn, !.fin = hasFin, !.payload = data]
    <2>1. SubSeq(data, (1 - 1) * MaxPayloadSize + 1,
                 Smaller((1 - 1) * MaxPayloadSize + MaxPayloadSize, Len(data))) = data
      <3>1. (1 - 1) * MaxPayloadSize + 1 = 1 /\ (1 - 1) * MaxPayloadSize + MaxPayloadSize = MaxPayloadSize
        BY Constants
      <3>2. Smaller(MaxPayloadSize, Len(data)) = 0
        BY <1>1, Constants DEF Smaller
      <3>3. SubSeq(data, 1, 0) = data
        BY <1>1
      <3> QED
        BY <3>1, <3>2, <3>3, ZenonT(180)
    <2>2. (FALSE /\ 1 = Pieces(Len(data))) = hasFin
      BY <1>5
    <2> QED
      BY <1>6, <1>7, <1>8, <2>1, <2>2, ZenonT(180) DEF Piece
  <1>10. /\ seg \in SegmentRecord
         /\ seg.seqno = seqno /\ seg.syn = hasSyn /\ seg.fin = hasFin /\ seg.payload = data
    <2>1. SegmentWith(seg, seqno, hasSyn, hasFin, data)
      BY <1>1, <1>5, <1>9, ZenonT(180) DEF SegmentWith
    <2> QED
      BY <2>1, SegmentType, ZenonT(180)
  <1>11. IsSegment(seg, 0, 1)
    <2>1. length_in_sequence_space(seg) = 1 - 0
      <3>1. (IF seg.syn THEN 1 ELSE 0) = 1 /\ (IF seg.fin THEN 1 ELSE 0) = 0
        BY <1>5, <1>10
      <3>2. length_in_sequence_space(seg) = Len(data) + 1 + 0
        BY <1>10, <3>1, ZenonT(180) DEF length_in_sequence_space
      <3> QED
        BY <1>1, <3>2
    <2>2. \A k \in 1 .. Len(seg.payload) : seg.payload[k] = 0 + FlagBit(seg.syn) + k - 1
      BY <1>1, <1>10
    <2>3. seg.syn <=> 0 = 0
      BY <1>5, <1>10
    <2> QED
      BY <1>5, <1>10, <2>1, <2>2, <2>3, ZenonT(180) DEF IsSegment
  <1>12. segs \in Seq(SegmentRecord) /\ Len(segs) = 1 /\ segs[1] = seg
    <2>1. segs = [i \in 1 .. 1 |-> seg]
      <3>1. \A i \in 1 .. 1 : Piece(s, data, FALSE, i) = seg
        BY <1>8
      <3> QED
        BY <1>3, <3>1, ZenonT(180)
    <2> QED
      BY <1>10, <2>1
  <1> DEFINE mark == [i \in 1 .. 2 |-> i - 1]
  <1>13. mark[1] = 0 /\ mark[2] = 1
    OBVIOUS
  <1> HIDE DEF mark
  <1>14. Queued(segs, mark, 0, 1)
    <2>1. \A i \in 1 .. 1 : i = 1 /\ i + 1 = 2
      OBVIOUS
    <2>2. \A i \in 1 .. Len(segs) : mark[i] < mark[i + 1] /\ IsSegment(segs[i], mark[i], mark[i + 1])
      BY <1>11, <1>12, <1>13, <2>1
    <2> QED
      BY <1>12, <1>13, <2>2 DEF Queued
  <1>15. segs[1].fin = FALSE
    BY <1>5, <1>10, <1>12
  <1> QED
    BY <1>1, <1>4, <1>12, <1>14, <1>15, ZenonT(180)

-----------------------------------------------------------------------------
(* The stream. *)

(* The n bytes after lo. *)
Run(lo, n) == [i \in 1 .. n |-> lo + i]

(* A run is a sequence. *)
LEMMA RunType ==
    ASSUME NEW lo \in Nat, NEW n \in Nat
    PROVE  Run(lo, n) \in Seq(Nat) /\ Len(Run(lo, n)) = n
  BY DEF Run

(* A run of no bytes. *)
LEMMA RunEmpty ==
    ASSUME NEW lo \in Nat, NEW n \in Nat
    PROVE  Run(lo, n) = <<>> <=> n = 0
  BY DEF Run

(* Both parts of a run are runs. *)
LEMMA RunParts ==
    ASSUME NEW lo \in Nat, NEW n \in Nat, NEW j \in 0 .. n
    PROVE  /\ SubSeq(Run(lo, n), 1, j) = Run(lo, j)
           /\ SubSeq(Run(lo, n), j + 1, n) = Run(lo + j, n - j)
  BY DEF Run

(* Runs that follow each other are one run. *)
LEMMA RunConcat ==
    ASSUME NEW lo \in Nat, NEW a \in Nat, NEW b \in Nat
    PROVE  Run(lo, a) \o Run(lo + a, b) = Run(lo, a + b)
  BY DEF Run

(* The stream of the sender holds the bytes rd + 1 .. wr: those written    *)
(* and not yet read.                                                       *)
StreamIs(st, rd, wr) ==
    /\ st \in ByteStreamRecord(Nat) /\ st.capacity = Capacity /\ st.hollow = FALSE
    /\ rd \in Nat /\ wr \in Nat /\ rd <= wr /\ wr <= MaxBytes /\ wr - rd <= Capacity
    /\ st.bytes_read = rd /\ st.bytes_written = wr /\ st.buffers = Run(rd, wr - rd)

(* k more bytes can be written. *)
CanWrite(st, rd, wr, k) ==
    /\ StreamIs(st, rd, wr) /\ k \in Nat \ {0} /\ wr + k <= MaxBytes /\ remaining_capacity(st) > 0

(* write appends the next bytes, as many as fit. *)
LEMMA WriteStream ==
    ASSUME NEW st, NEW rd, NEW wr, NEW k, CanWrite(st, rd, wr, k)
    PROVE  LET new == stream_write(st, [i \in 1 .. k |-> wr + i])
           IN  /\ \E w \in Nat : w > wr /\ StreamIs(new, rd, w)
               /\ new.input_end = st.input_end
  <1>1. PICK R \in Nat, W \in Nat, K \in Nat \ {0}, n \in Nat :
           R = rd /\ W = wr /\ K = k /\ n = W - R /\ W + K <= MaxBytes /\ n <= Capacity
    BY DEF CanWrite, StreamIs
  <1>2. PICK data : data = [i \in 1 .. k |-> wr + i]
    BY ZenonT(180)
  <1>3. data = Run(W, K) /\ Len(data) = K /\ data # <<>>
    <2>1. data = Run(W, K)
      BY <1>1, <1>2 DEF Run
    <2> QED
      BY <2>1, RunType, RunEmpty
  <1>4. st.buffers = Run(R, n) /\ Len(st.buffers) = n /\ st.capacity = Capacity
    <2>1. st.buffers = Run(R, n) /\ st.capacity = Capacity
      BY <1>1 DEF CanWrite, StreamIs
    <2> QED
      BY <2>1, RunType
  <1>5. PICK j \in Nat : j = Smaller(Len(data), remaining_capacity(st)) /\ j > 0 /\ j <= K /\ n + j <= Capacity
    <2>1. remaining_capacity(st) = Capacity - n /\ Capacity - n > 0
      BY <1>4 DEF CanWrite, remaining_capacity, buffer_size
    <2>2. PICK room \in Nat : room = Capacity - n /\ room > 0
      BY <1>1, <2>1, Constants
    <2>3. PICK j \in Nat : j = Smaller(K, room) /\ j > 0 /\ j <= K /\ j <= room
      BY <2>2 DEF Smaller
    <2>4. n + j <= Capacity
      BY <2>2, <2>3, Constants
    <2> QED
      BY <1>3, <2>1, <2>2, <2>3, <2>4
  <1>6. SubSeq(data, 1, j) = Run(W, j)
    <2>1. j \in 0 .. K
      BY <1>5
    <2> QED
      BY <1>3, <2>1, RunParts, ZenonT(180)
  <1>7. /\ Run(W, j) \in Seq(Nat) /\ Len(Run(W, j)) = j /\ Run(W, j) # <<>>
        /\ Run(R, n + j) \in Seq(Nat)
    <2>1. PICK m \in Nat : m = n + j
      OBVIOUS
    <2>2. Run(R, m) \in Seq(Nat)
      BY RunType
    <2>3. Run(W, j) \in Seq(Nat) /\ Len(Run(W, j)) = j
      BY RunType
    <2>4. Run(W, j) # <<>>
      BY <1>5, RunEmpty
    <2> QED
      BY <2>1, <2>2, <2>3, <2>4
  <1>8. st.buffers \o Run(W, j) = Run(R, n + j)
    <2>1. Run(R, n) \o Run(R + n, j) = Run(R, n + j)
      BY RunConcat, ZenonT(180)
    <2>2. R + n = W
      BY <1>1
    <2> QED
      BY <1>4, <2>1, <2>2, ZenonT(180)
  <1>9. PICK h \in BOOLEAN, b \in Seq(Nat), w \in Nat : h = FALSE /\ b = Run(R, n + j) /\ w = W + j
    <2>1. W + j \in Nat
      OBVIOUS
    <2> QED
      BY <1>7, <2>1, ZenonT(180)
  <1>10. PICK new : new = stream_write(st, data)
    OBVIOUS
  <1>11. new = [st EXCEPT !.buffers = b, !.hollow = h, !.bytes_written = w]
    <2>1. new = accept(st, Run(W, j))
      BY <1>3, <1>5, <1>6, <1>10, ZenonT(180) DEF stream_write
    <2>2. (Run(W, j) = <<>>) = h
      BY <1>7, <1>9
    <2>3. st.bytes_written + Len(Run(W, j)) = w
      BY <1>1, <1>7, <1>9 DEF CanWrite, StreamIs
    <2> QED
      BY <1>8, <1>9, <2>1, <2>2, <2>3, ZenonT(180) DEF accept
  <1>12. st \in ByteStreamRecord(Nat) /\ st.bytes_read = R
    BY <1>1 DEF CanWrite, StreamIs
  <1>13. /\ new \in ByteStreamRecord(Nat) /\ new.capacity = Capacity /\ new.hollow = FALSE
         /\ new.bytes_read = R /\ new.bytes_written = w /\ new.buffers = b
         /\ new.input_end = st.input_end
    BY <1>4, <1>9, <1>11, <1>12, ZenonT(180) DEF ByteStreamRecord
  <1>14. w > W /\ w <= MaxBytes /\ R <= w /\ w - R = n + j
    BY <1>1, <1>5, <1>9, Constants
  <1>15. StreamIs(new, rd, w)
    BY <1>1, <1>5, <1>9, <1>13, <1>14 DEF StreamIs
  <1> QED
    BY <1>1, <1>2, <1>9, <1>10, <1>13, <1>14, <1>15, ZenonT(180)

(* n bytes can be read. *)
CanTake(st, rd, wr, n) == StreamIs(st, rd, wr) /\ n \in Nat /\ n <= wr - rd

(* read returns the next n bytes and removes them. *)
LEMMA TakeStream ==
    ASSUME NEW st, NEW rd, NEW wr, NEW n, CanTake(st, rd, wr, n)
    PROVE  LET new == stream_read(st, n)
           IN  /\ StreamIs(new, rd + n, wr) /\ new.input_end = st.input_end
               /\ peek_output(st, n) = Run(rd, n)
  <1>1. PICK R \in Nat, W \in Nat, N \in Nat, size \in Nat :
           R = rd /\ W = wr /\ N = n /\ size = W - R /\ N <= size /\ size <= Capacity
    BY DEF CanTake, StreamIs
  <1>2. st.buffers = Run(R, size) /\ Len(st.buffers) = size
    <2>1. st.buffers = Run(R, size)
      BY <1>1 DEF CanTake, StreamIs
    <2> QED
      BY <2>1, RunType
  <1>3. N \in 0 .. size
    BY <1>1
  <1>4. peek_output(st, n) = Run(R, N) /\ Len(peek_output(st, n)) = N
    <2>1. Smaller(N, size) = N
      BY <1>1 DEF Smaller
    <2>2. SubSeq(Run(R, size), 1, N) = Run(R, N)
      BY <1>3, RunParts
    <2>3. peek_output(st, n) = Run(R, N)
      BY <1>1, <1>2, <2>1, <2>2 DEF peek_output, buffer_size
    <2> QED
      BY <2>3, RunType
  <1>5. ~remove_prefix_throws(st, n)
    BY <1>1, <1>2 DEF remove_prefix_throws, buffer_size
  <1>6. PICK b \in Seq(Nat), r \in Nat : b = Run(R + N, size - N) /\ r = R + N
    <2>1. R + N \in Nat /\ size - N \in Nat
      BY <1>1
    <2> QED
      BY <2>1, RunType
  <1>7. SubSeq(st.buffers, n + 1, Len(st.buffers)) = b
    <2>1. SubSeq(Run(R, size), N + 1, size) = Run(R + N, size - N)
      BY <1>3, RunParts, ZenonT(180)
    <2> QED
      BY <1>1, <1>2, <1>6, <2>1, ZenonT(180)
  <1>8. PICK new : new = stream_read(st, n)
    OBVIOUS
  <1>9. st \in ByteStreamRecord(Nat) /\ st.bytes_read = R /\ st.bytes_written = W /\ st.capacity = Capacity
        /\ st.hollow = FALSE
    BY <1>1 DEF CanTake, StreamIs
  <1>10. new = [[st EXCEPT !.buffers = b] EXCEPT !.bytes_read = r]
    <2>1. remove_prefix(st, n) = [st EXCEPT !.buffers = b]
      BY <1>5, <1>7, ZenonT(180) DEF remove_prefix
    <2>2. [st EXCEPT !.buffers = b].bytes_read = R
      BY <1>9 DEF ByteStreamRecord
    <2> QED
      BY <1>4, <1>6, <1>8, <2>1, <2>2, ZenonT(180) DEF stream_read
  <1>11. /\ new \in ByteStreamRecord(Nat) /\ new.capacity = Capacity /\ new.hollow = FALSE
         /\ new.bytes_read = r /\ new.bytes_written = W /\ new.buffers = b
         /\ new.input_end = st.input_end
    BY <1>9, <1>10, ZenonT(180) DEF ByteStreamRecord
  <1>12. r <= W /\ W - r = size - N /\ W - r <= Capacity /\ W <= MaxBytes
    <2>1. W <= MaxBytes
      BY <1>1 DEF CanTake, StreamIs
    <2> QED
      BY <1>1, <1>6, <2>1, Constants
  <1>13. StreamIs(new, r, W)
    BY <1>6, <1>11, <1>12 DEF StreamIs
  <1> QED
    BY <1>1, <1>4, <1>6, <1>8, <1>11, <1>13

(* eof is reached when everything written has been read. *)
LEMMA EofStream ==
    ASSUME NEW st, NEW rd, NEW wr, StreamIs(st, rd, wr)
    PROVE  eof(st) <=> st.input_end /\ rd = wr
  <1>1. PICK R \in Nat, W \in Nat, n \in Nat : R = rd /\ W = wr /\ n = W - R
    BY DEF StreamIs
  <1>2. st.buffers = Run(R, n) /\ st.hollow = FALSE
    BY <1>1 DEF StreamIs
  <1>3. st.buffers = <<>> <=> n = 0
    BY <1>2, RunEmpty
  <1>4. n = 0 <=> rd = wr
    BY <1>1
  <1> QED
    BY <1>2, <1>3, <1>4 DEF eof, buffer_empty

-----------------------------------------------------------------------------
(* The data of the sender, and fill_window. *)

(* The state of a TCPSender. *)
SenderRecord ==
    [isn : Int, stream : ByteStreamRecord(Nat), segments_out : Seq(SegmentRecord),
     is_syn_received : BOOLEAN, is_fin_received : BOOLEAN,
     consecutive_retrans : Nat, window_size : Nat, is_window_zero : BOOLEAN,
     bytes_in_flight : Nat, seg_queue : Seq(SegmentRecord), next_seqno : Nat,
     rto : Nat, age : Nat]

(* The FIN has been sent. *)
FinSent(s) == s.is_fin_received \/ \E i \in DOMAIN s.seg_queue : s.seg_queue[i].fin

(* The retransmission queue q holds lo .. next - 1, and nothing after a    *)
(* FIN.                                                                    *)
Flight(q, lo, next) ==
    /\ \E mark : Queued(q, mark, lo, next)
    /\ \A i \in 1 .. Len(q) : q[i].fin => i = Len(q)

(* next counts the SYN, the bytes taken from the stream, and the FIN.      *)
Account(next, rd, wr, ended, fin) ==
    /\ fin => ended /\ rd = wr /\ next = wr + 2
    /\ ~fin /\ next # 0 => next = rd + 1
    /\ next = 0 => wr = 0 /\ ~ended

(* The invariant of the data: what is unacknowledged, lo .. next - 1, is   *)
(* in the queue and is less than half the circle; what was sent is         *)
(* accounted for; the flags for SYN and FIN agree with lo.                 *)
SendsAt(s, rd, wr, lo, next) ==
    /\ lo \in Nat /\ next \in Nat /\ lo <= next /\ next - lo < Half
    /\ s \in SenderRecord /\ s.isn = Isn /\ s.next_seqno = next /\ s.bytes_in_flight = next - lo
    /\ s.window_size > 0 /\ s.window_size < Half
    /\ StreamIs(s.stream, rd, wr)
    /\ Flight(s.seg_queue, lo, next)
    /\ s.is_syn_received <=> lo # 0
    /\ s.is_fin_received => lo # 0
    /\ Account(next, rd, wr, s.stream.input_end, FinSent(s))

(* The invariant of the data, for some rd, wr, lo and next. *)
Sends(s) == \E rd, wr, lo, next : SendsAt(s, rd, wr, lo, next)

(* What t has in common with s when nothing is sent or acknowledged. *)
SameFlight(s, t) ==
    /\ t \in SenderRecord /\ t.isn = s.isn /\ t.next_seqno = s.next_seqno
    /\ t.bytes_in_flight = s.bytes_in_flight /\ t.seg_queue = s.seg_queue
    /\ t.is_syn_received = s.is_syn_received /\ t.is_fin_received = s.is_fin_received
    /\ t.window_size > 0 /\ t.window_size < Half

(* The invariant of the data says nothing of the other fields. *)
LEMMA SameSends ==
    ASSUME NEW s, NEW t, NEW rd, NEW wr, NEW lo, NEW next, SendsAt(s, rd, wr, lo, next),
           SameFlight(s, t), t.stream = s.stream
    PROVE  SendsAt(t, rd, wr, lo, next)
  <1>1. FinSent(t) = FinSent(s)
    BY ZenonT(180) DEF SameFlight, FinSent
  <1> QED
    BY <1>1, ZenonT(180) DEF SameFlight, SendsAt

(* Sequence numbers stay within the bytes of the application, the SYN and  *)
(* the FIN.                                                                *)
LEMMA AccountBounds ==
    ASSUME NEW s, NEW rd, NEW wr, NEW lo, NEW next, SendsAt(s, rd, wr, lo, next)
    PROVE  next <= MaxBytes + 2
  <1>1. PICK N \in Nat, R \in Nat, W \in Nat : N = next /\ R = rd /\ W = wr /\ R <= W /\ W <= MaxBytes
    BY DEF SendsAt, StreamIs
  <1>2. Account(N, R, W, s.stream.input_end, FinSent(s))
    BY <1>1 DEF SendsAt
  <1>3. N = W + 2 \/ N = R + 1 \/ N = 0
    BY <1>2, ZenonT(180) DEF Account
  <1> QED
    BY <1>1, <1>3, Constants

(* The application writes, or ends its stream, after the SYN. *)
LEMMA StreamGrows ==
    ASSUME NEW s, NEW t, NEW rd, NEW wr, NEW lo, NEW next, SendsAt(s, rd, wr, lo, next),
           next # 0, SameFlight(s, t), NEW w, StreamIs(t.stream, rd, w),
           \/ ~s.stream.input_end /\ t.stream.input_end = s.stream.input_end
           \/ w = wr /\ t.stream.input_end = TRUE
    PROVE  SendsAt(t, rd, w, lo, next)
  <1>1. FinSent(t) = FinSent(s)
    BY ZenonT(180) DEF SameFlight, FinSent
  <1>2. Account(next, rd, wr, s.stream.input_end, FinSent(s))
    BY DEF SendsAt
  <1>3. Account(next, rd, w, t.stream.input_end, FinSent(t))
    BY <1>1, <1>2, ZenonT(180) DEF Account
  <1> QED
    BY <1>1, <1>3, ZenonT(180) DEF SameFlight, SendsAt

(* What the peer and the timer see of a call that sends nothing. *)
Idle(s, t) ==
    /\ SameFlight(s, t) /\ t.window_size = s.window_size /\ t.segments_out = s.segments_out
    /\ t.consecutive_retrans = s.consecutive_retrans /\ t.rto = s.rto /\ t.age = s.age

(* What they see of one that sends segs, the numbers next .. new - 1.      *)
Sent(s, t, segs, next, new) ==
    /\ \E mark : Queued(segs, mark, next, new)
    /\ t.seg_queue = s.seg_queue \o segs /\ t.segments_out = s.segments_out \o segs
    /\ t.next_seqno = new /\ t.window_size = s.window_size
    /\ t.bytes_in_flight <= t.window_size
    /\ t.consecutive_retrans = s.consecutive_retrans
    /\ IF s.seg_queue = <<>> THEN t.rto = InitialRto /\ t.age = 0
                             ELSE t.rto = s.rto /\ t.age = s.age

(* segs can be sent; n is how many numbers they hold. *)
CanAppend(s, st, segs, n) ==
    /\ s \in SenderRecord /\ st \in ByteStreamRecord(Nat) /\ segs \in Seq(SegmentRecord)
    /\ n \in Nat /\ n = length_of_first(segs, Len(segs))

(* t is s after segs have been sent. *)
Appended(s, t, st, segs, n) ==
    /\ t \in SenderRecord /\ t.isn = s.isn /\ t.stream = st
    /\ t.seg_queue = s.seg_queue \o segs /\ t.segments_out = s.segments_out \o segs
    /\ t.next_seqno = s.next_seqno + n /\ t.bytes_in_flight = s.bytes_in_flight + n
    /\ t.is_syn_received = s.is_syn_received /\ t.is_fin_received = s.is_fin_received
    /\ t.window_size = s.window_size
    /\ t.consecutive_retrans = s.consecutive_retrans
    /\ IF s.seg_queue = <<>> THEN t.rto = InitialRto /\ t.age = 0
                             ELSE t.rto = s.rto /\ t.age = s.age

(* send queues the segments and counts them; it starts the timer if        *)
(* nothing was in flight.                                                  *)
LEMMA SendFields ==
    ASSUME NEW s, NEW st, NEW segs, NEW n, CanAppend(s, st, segs, n)
    PROVE  Appended(s, send(s, st, segs), st, segs, n)
  <1>0. /\ s \in SenderRecord /\ st \in ByteStreamRecord(Nat) /\ segs \in Seq(SegmentRecord)
        /\ n \in Nat /\ n = length_of_first(segs, Len(segs))
    BY DEF CanAppend
  <1>1. PICK u : u = IF s.seg_queue = <<>> THEN restart_timer(s) ELSE s
    OBVIOUS
  <1>2. PICK r \in Nat, a \in Nat :
           /\ r = IF s.seg_queue = <<>> THEN InitialRto ELSE s.rto
           /\ a = IF s.seg_queue = <<>> THEN 0 ELSE s.age
    <2>1. s.rto \in Nat /\ s.age \in Nat /\ InitialRto \in Nat
      BY <1>0, Constants DEF SenderRecord
    <2> QED
      BY <2>1
  <1>3. u = [s EXCEPT !.rto = r, !.age = a]
    BY <1>0, <1>1, <1>2, ZenonT(180) DEF restart_timer, SenderRecord
  <1>4. PICK q \in Seq(SegmentRecord), o \in Seq(SegmentRecord), x \in Nat, b \in Nat :
           /\ q = s.seg_queue \o segs /\ o = s.segments_out \o segs
           /\ x = s.next_seqno + n /\ b = s.bytes_in_flight + n
    <2>1. /\ s.seg_queue \in Seq(SegmentRecord) /\ s.segments_out \in Seq(SegmentRecord)
          /\ s.next_seqno \in Nat /\ s.bytes_in_flight \in Nat
      BY <1>0 DEF SenderRecord
    <2>2. /\ s.seg_queue \o segs \in Seq(SegmentRecord) /\ s.segments_out \o segs \in Seq(SegmentRecord)
          /\ s.next_seqno + n \in Nat /\ s.bytes_in_flight + n \in Nat
      BY <1>0, <2>1
    <2> QED
      BY <2>2, ZenonT(180)
  <1>5. PICK t : t = send(s, st, segs)
    OBVIOUS
  <1>6. /\ u.next_seqno = s.next_seqno /\ u.bytes_in_flight = s.bytes_in_flight
        /\ u.segments_out = s.segments_out /\ u.seg_queue = s.seg_queue
    BY <1>0, <1>3 DEF SenderRecord
  <1>7. t = [u EXCEPT !.stream = st, !.next_seqno = x, !.bytes_in_flight = b,
                      !.segments_out = o, !.seg_queue = q]
    BY <1>0, <1>1, <1>4, <1>5, <1>6, ZenonT(180) DEF send
  <1>8. t = [s EXCEPT !.rto = r, !.age = a, !.stream = st, !.next_seqno = x, !.bytes_in_flight = b,
                      !.segments_out = o, !.seg_queue = q]
    BY <1>0, <1>3, <1>7 DEF SenderRecord
  <1>9. /\ t \in SenderRecord /\ t.isn = s.isn /\ t.stream = st
        /\ t.seg_queue = q /\ t.segments_out = o
        /\ t.next_seqno = x /\ t.bytes_in_flight = b
        /\ t.is_syn_received = s.is_syn_received /\ t.is_fin_received = s.is_fin_received
        /\ t.window_size = s.window_size
        /\ t.consecutive_retrans = s.consecutive_retrans /\ t.rto = r /\ t.age = a
    BY <1>0, <1>8, ZenonT(180) DEF SenderRecord
  <1>10. IF s.seg_queue = <<>> THEN t.rto = InitialRto /\ t.age = 0
                               ELSE t.rto = s.rto /\ t.age = s.age
    BY <1>2, <1>9
  <1> QED
    BY <1>4, <1>5, <1>9, <1>10, ZenonT(180) DEF Appended

(* A queue holds as many numbers as its bounds say. *)
LEMMA QueuedLength ==
    ASSUME NEW q, NEW mark, NEW lo, NEW hi, Queued(q, mark, lo, hi)
    PROVE  /\ length_of_first(q, Len(q)) = hi - lo
           /\ q \in Seq(SegmentRecord) /\ lo \in Nat /\ hi \in Nat /\ lo <= hi
           /\ q = <<>> <=> lo = hi
  <1>1. PICK n \in Nat : n = Len(q)
    BY DEF Queued
  <1>2. n \in 0 .. Len(q)
    BY <1>1
  <1>3. length_of_first(q, n) = mark[n + 1] - lo
    BY <1>2, MarkOfFirst
  <1>4. mark[n + 1] = hi /\ mark[1] = lo /\ lo \in Nat /\ hi \in Nat /\ q \in Seq(SegmentRecord)
    BY <1>1 DEF Queued
  <1>5. n # 0 => lo < hi
    <2> SUFFICES ASSUME n # 0 PROVE lo < hi
      OBVIOUS
    <2>1. 1 \in 1 .. n + 1 /\ n + 1 \in 1 .. n + 1 /\ 1 < n + 1
      OBVIOUS
    <2>2. mark[1] < mark[n + 1]
      BY <1>1, <2>1 DEF Queued
    <2> QED
      BY <1>4, <2>2
  <1>6. n = 0 => lo = hi
    BY <1>4
  <1>7. q = <<>> <=> n = 0
    BY <1>1, <1>4
  <1> QED
    BY <1>1, <1>3, <1>4, <1>5, <1>6, <1>7

(* Segments that are sent continue the queue. *)
LEMMA FlightGrows ==
    ASSUME NEW q, NEW lo, NEW next, Flight(q, lo, next), \A i \in DOMAIN q : ~q[i].fin,
           NEW segs, NEW mark, NEW new, Queued(segs, mark, next, new), NEW fin,
           \A i \in 1 .. Len(segs) : segs[i].fin = (fin /\ i = Len(segs)), segs # <<>>
    PROVE  /\ Flight(q \o segs, lo, new)
           /\ (\E i \in DOMAIN (q \o segs) : (q \o segs)[i].fin) <=> fin
  <1>1. PICK a \in Nat, b \in Nat : a = Len(q) /\ b = Len(segs)
    BY DEF Flight, Queued
  <1>2. q \in Seq(SegmentRecord) /\ segs \in Seq(SegmentRecord)
    BY DEF Flight, Queued
  <1>3. /\ Len(q \o segs) = a + b /\ DOMAIN (q \o segs) = 1 .. a + b /\ DOMAIN q = 1 .. a
        /\ \A i \in 1 .. a : (q \o segs)[i] = q[i]
        /\ \A i \in a + 1 .. a + b : (q \o segs)[i] = segs[i - a]
    BY <1>1, <1>2
  <1>4. \E m : Queued(q \o segs, m, lo, new)
    BY JoinQueues, ZenonT(180) DEF Flight
  <1>5. ASSUME NEW i \in 1 .. a + b
        PROVE  (q \o segs)[i].fin <=> (fin /\ i = a + b)
    <2>1. CASE i <= a
      <3>1. i \in 1 .. a
        BY <2>1
      <3>2. ~q[i].fin
        BY <1>3, <3>1
      <3>3. b # 0
        BY <1>1, <1>2
      <3> QED
        BY <1>3, <3>1, <3>2, <3>3
    <2>2. CASE ~(i <= a)
      <3>1. PICK k \in 1 .. b : k = i - a /\ i \in a + 1 .. a + b
        BY <2>2
      <3>2. segs[k].fin = (fin /\ k = b)
        BY <1>1, <3>1
      <3>3. (q \o segs)[i] = segs[k]
        BY <1>3, <3>1
      <3>4. k = b <=> i = a + b
        BY <3>1
      <3> QED
        BY <3>2, <3>3, <3>4, ZenonT(180)
    <2> QED
      BY <2>1, <2>2, ZenonT(180)
  <1>6. a + b \in 1 .. a + b
    BY <1>1, <1>2
  <1>7. \A i \in 1 .. Len(q \o segs) : (q \o segs)[i].fin => i = Len(q \o segs)
    BY <1>3, <1>5, ZenonT(180)
  <1>8. (\E i \in DOMAIN (q \o segs) : (q \o segs)[i].fin) <=> fin
    BY <1>3, <1>5, <1>6, ZenonT(180)
  <1> QED
    BY <1>4, <1>7, <1>8 DEF Flight

(* segs may be sent: they fit the window, continue what was sent, and      *)
(* carry the FIN exactly if fin.                                           *)
MaySend(s, rd, wr, lo, next, st, taken, segs, new, fin) ==
    /\ SendsAt(s, rd, wr, lo, next) /\ ~FinSent(s)
    /\ \E mark : Queued(segs, mark, next, new)
    /\ segs # <<>> /\ \A i \in 1 .. Len(segs) : segs[i].fin = (fin /\ i = Len(segs))
    /\ StreamIs(st, taken, wr) /\ Account(new, taken, wr, st.input_end, fin) /\ fin \in BOOLEAN
    /\ new - lo <= s.window_size

(* Sending them keeps the invariant of the data. *)
LEMMA SendSegments ==
    ASSUME NEW s, NEW rd, NEW wr, NEW lo, NEW next, NEW st, NEW taken, NEW segs, NEW new, NEW fin,
           MaySend(s, rd, wr, lo, next, st, taken, segs, new, fin)
    PROVE  /\ SendsAt(send(s, st, segs), taken, wr, lo, new)
           /\ Sent(s, send(s, st, segs), segs, next, new)
  <1>1. PICK mark : Queued(segs, mark, next, new)
    BY DEF MaySend
  <1>2. PICK L \in Nat, N \in Nat, M \in Nat :
           L = lo /\ N = next /\ M = new /\ L <= N /\ N <= M /\ M - L <= s.window_size
    BY <1>1, QueuedLength, ZenonT(180) DEF MaySend, SendsAt
  <1>3. PICK n \in Nat : n = length_of_first(segs, Len(segs)) /\ n = M - N
    BY <1>1, <1>2, QueuedLength
  <1>4. s \in SenderRecord /\ st \in ByteStreamRecord(Nat) /\ segs \in Seq(SegmentRecord)
    BY <1>1, QueuedLength DEF MaySend, SendsAt, StreamIs
  <1>5. PICK t : t = send(s, st, segs)
    OBVIOUS
  <1>6. /\ t \in SenderRecord /\ t.isn = s.isn /\ t.stream = st
        /\ t.seg_queue = s.seg_queue \o segs /\ t.segments_out = s.segments_out \o segs
        /\ t.next_seqno = s.next_seqno + n /\ t.bytes_in_flight = s.bytes_in_flight + n
        /\ t.is_syn_received = s.is_syn_received /\ t.is_fin_received = s.is_fin_received
        /\ t.window_size = s.window_size
        /\ t.consecutive_retrans = s.consecutive_retrans
        /\ IF s.seg_queue = <<>> THEN t.rto = InitialRto /\ t.age = 0
                                 ELSE t.rto = s.rto /\ t.age = s.age
    <2>1. Appended(s, t, st, segs, n)
      BY <1>3, <1>4, <1>5, SendFields, ZenonT(180) DEF CanAppend
    <2> QED
      BY <2>1, ZenonT(180) DEF Appended
  <1>7. /\ s.next_seqno = N /\ s.bytes_in_flight = N - L /\ s.window_size \in Nat /\ s.window_size > 0
        /\ s.window_size < Half
    BY <1>2 DEF MaySend, SendsAt, SenderRecord
  <1>8. /\ t.next_seqno = M /\ t.bytes_in_flight = M - L /\ M - L < Half
        /\ t.bytes_in_flight <= t.window_size
    BY <1>2, <1>3, <1>6, <1>7, Constants
  <1>9. /\ ~s.is_fin_received /\ \A i \in DOMAIN s.seg_queue : ~s.seg_queue[i].fin
    BY ZenonT(180) DEF MaySend, FinSent
  <1>10. /\ Flight(t.seg_queue, lo, new)
         /\ (\E i \in DOMAIN t.seg_queue : t.seg_queue[i].fin) <=> fin
    <2>1. Flight(s.seg_queue, lo, next)
      BY DEF MaySend, SendsAt
    <2>2. segs # <<>> /\ \A i \in 1 .. Len(segs) : segs[i].fin = (fin /\ i = Len(segs))
      BY DEF MaySend
    <2>3. PICK q : q = s.seg_queue
      OBVIOUS
    <2>4. Flight(q, lo, next) /\ \A i \in DOMAIN q : ~q[i].fin
      BY <1>9, <2>1, <2>3, ZenonT(180)
    <2>5. /\ Flight(q \o segs, lo, new)
          /\ (\E i \in DOMAIN (q \o segs) : (q \o segs)[i].fin) <=> fin
      BY <1>1, <2>2, <2>4, FlightGrows
    <2>6. t.seg_queue = q \o segs
      BY <1>6, <2>3
    <2> QED
      BY <2>5, <2>6, ZenonT(180)
  <1>11. FinSent(t) <=> fin
    BY <1>6, <1>9, <1>10, ZenonT(180) DEF FinSent
  <1>12. Account(new, taken, wr, t.stream.input_end, FinSent(t))
    BY <1>6, <1>11, ZenonT(180) DEF MaySend, Account
  <1>13. StreamIs(t.stream, taken, wr)
    BY <1>6 DEF MaySend
  <1>14. s.isn = Isn /\ (s.is_syn_received <=> lo # 0) /\ (s.is_fin_received => lo # 0)
    BY DEF MaySend, SendsAt
  <1>15. lo \in Nat /\ new \in Nat /\ lo <= new /\ new - lo < Half /\ t.bytes_in_flight = new - lo
         /\ t.next_seqno = new
    BY <1>2, <1>8
  <1>16. SendsAt(t, taken, wr, lo, new)
    BY <1>6, <1>7, <1>10, <1>12, <1>13, <1>14, <1>15, ZenonT(180) DEF SendsAt
  <1>17. Sent(s, t, segs, next, new)
    BY <1>1, <1>6, <1>8, <1>15, ZenonT(180) DEF Sent
  <1> QED
    BY <1>5, <1>16, <1>17

(* Types that the invariant of the data implies. *)
LEMMA SendsTypes ==
    ASSUME NEW s, NEW rd, NEW wr, NEW lo, NEW next, SendsAt(s, rd, wr, lo, next)
    PROVE  /\ rd \in Nat /\ wr \in Nat /\ lo \in Nat /\ next \in Nat /\ s.window_size \in Nat
           /\ rd <= wr /\ lo <= next
  <1>1. s.window_size \in Nat
    BY DEF SendsAt, SenderRecord
  <1> QED
    BY <1>1 DEF SendsAt, StreamIs

(* How much fill_window reads: what is left of the window or all there is. *)
LEMMA Readable ==
    ASSUME NEW s, NEW rd, NEW wr, NEW lo, NEW next, SendsAt(s, rd, wr, lo, next)
    PROVE  \E n \in Nat, room \in Nat :
              /\ room = remaining_size(s) /\ n = Smaller(room, buffer_size(s.stream))
              /\ n <= room /\ n <= wr - rd /\ (n = wr - rd \/ n = room)
              /\ room > 0 => room = s.window_size - (next - lo)
  <1>1. PICK L \in Nat, N \in Nat, w \in Nat, R \in Nat, W \in Nat, size \in Nat :
           /\ L = lo /\ N = next /\ w = s.window_size /\ R = rd /\ W = wr /\ size = W - R /\ L <= N
    <2>1. wr - rd \in Nat
      BY SendsTypes
    <2> QED
      BY <2>1, SendsTypes
  <1>2. buffer_size(s.stream) = size
    <2>1. s.stream.buffers = Run(R, size)
      BY <1>1 DEF SendsAt, StreamIs
    <2> QED
      BY <2>1, RunType DEF buffer_size
  <1>3. s.bytes_in_flight = N - L
    BY <1>1 DEF SendsAt
  <1>4. PICK room \in Nat : room = remaining_size(s) /\ (room > 0 => room = w - (N - L))
    <2>1. remaining_size(s) = IF w > N - L THEN w - (N - L) ELSE 0
      BY <1>1, <1>3 DEF remaining_size
    <2> QED
      BY <1>1, <2>1
  <1>5. PICK n \in Nat : n = Smaller(room, size) /\ n <= room /\ n <= size /\ (n = size \/ n = room)
    BY DEF Smaller
  <1> QED
    BY <1>1, <1>2, <1>4, <1>5

(* fill_window keeps the invariant of the data: it sends nothing, or the   *)
(* SYN, or bytes of the stream that fit the window, with the FIN if they   *)
(* are the last and it fits too.                                           *)
LEMMA FillWindowSends ==
    ASSUME NEW s, NEW rd, NEW wr, NEW lo, NEW next, SendsAt(s, rd, wr, lo, next)
    PROVE  \E taken, new :
              /\ SendsAt(fill_window(s), taken, wr, lo, new)
              /\ \/ Idle(s, fill_window(s)) /\ new = next
                 \/ \E segs : Sent(s, fill_window(s), segs, next, new)
  <1>1. PICK n \in Nat, room \in Nat :
           /\ room = remaining_size(s) /\ n = Smaller(room, buffer_size(s.stream))
           /\ n <= room /\ n <= wr - rd /\ (n = wr - rd \/ n = room)
           /\ room > 0 => room = s.window_size - (next - lo)
    BY Readable
  <1>2. PICK st, data : st = stream_read(s.stream, n) /\ data = peek_output(s.stream, n)
    OBVIOUS
  <1>3. PICK atEnd \in BOOLEAN, fin \in BOOLEAN :
           /\ atEnd = (eof(st) /\ ~s.is_fin_received) /\ fin = (atEnd /\ fin_fits(s, n))
    BY ZenonT(180)
  <1>4. fill_window(s) =
           IF room = 0 \/ (~s.is_syn_received /\ s.seg_queue # <<>>)
           THEN s
           ELSE IF \/ atEnd /\ fin_queued(s)
                   \/ n = 0 /\ s.is_syn_received /\ ~fin
           THEN [s EXCEPT !.stream = st]
           ELSE send(s, st, make_segments(s, data, fin))
    BY <1>1, <1>2, <1>3, ZenonT(180) DEF fill_window
  <1>5. PICK R \in Nat, W \in Nat, L \in Nat, N \in Nat, w \in Nat, size \in Nat :
           /\ R = rd /\ W = wr /\ L = lo /\ N = next /\ w = s.window_size /\ size = W - R
           /\ L <= N /\ R <= W
    <2>1. wr - rd \in Nat
      BY SendsTypes
    <2> QED
      BY <2>1, SendsTypes
  <1>6. s \in SenderRecord /\ s.window_size > 0 /\ s.window_size < Half /\ StreamIs(s.stream, rd, wr)
    BY DEF SendsAt
  <1>7. /\ StreamIs(st, R + n, W) /\ st.input_end = s.stream.input_end /\ data = Run(R, n)
    <2>1. CanTake(s.stream, R, W, n)
      BY <1>1, <1>5, <1>6 DEF CanTake
    <2> QED
      BY <1>2, <2>1, TakeStream
  <1>8. st \in ByteStreamRecord(Nat)
    BY <1>7 DEF StreamIs
  <1>9. eof(st) <=> (st.input_end /\ R + n = W)
    BY <1>7, EofStream
  <1>10. Account(N, R, W, s.stream.input_end, FinSent(s))
    BY <1>5 DEF SendsAt
  <1>11. CASE room = 0 \/ (~s.is_syn_received /\ s.seg_queue # <<>>)
    <2>1. fill_window(s) = s
      BY <1>4, <1>11
    <2>2. Idle(s, s)
      BY <1>6 DEF Idle, SameFlight
    <2> QED
      BY <2>1, <2>2
  <1>12. CASE /\ ~(room = 0 \/ (~s.is_syn_received /\ s.seg_queue # <<>>))
              /\ (\/ atEnd /\ fin_queued(s)
                  \/ n = 0 /\ s.is_syn_received /\ ~fin)
    <2>1. fill_window(s) = [s EXCEPT !.stream = st]
      BY <1>4, <1>12
    <2>2. n = 0
      <3>1. CASE fin_queued(s)
        <4>1. FinSent(s)
          <5>1. s.seg_queue \in Seq(SegmentRecord)
            BY <1>6 DEF SenderRecord
          <5>2. Len(s.seg_queue) \in DOMAIN s.seg_queue
            BY <3>1, <5>1 DEF fin_queued
          <5> QED
            BY <3>1, <5>2 DEF fin_queued, FinSent
        <4>2. R = W
          BY <1>10, <4>1 DEF Account
        <4> QED
          BY <1>1, <1>5, <4>2
      <3> QED
        BY <1>12, <3>1
    <2>3. PICK t : t = [s EXCEPT !.stream = st]
      BY ZenonT(180)
    <2>4. t \in SenderRecord /\ t.stream = st /\ Idle(s, t)
      BY <1>6, <1>8, <2>3, ZenonT(180) DEF SenderRecord, Idle, SameFlight
    <2>5. R + n = R
      BY <2>2
    <2>6. StreamIs(t.stream, rd, wr) /\ t.stream.input_end = s.stream.input_end
      BY <1>5, <1>7, <2>4, <2>5
    <2>7. SendsAt(t, rd, wr, lo, next)
      <3>1. FinSent(t) = FinSent(s)
        BY <2>4, ZenonT(180) DEF Idle, SameFlight, FinSent
      <3>2. SameFlight(s, t)
        BY <2>4 DEF Idle
      <3> QED
        BY <2>6, <3>1, <3>2, ZenonT(180) DEF SameFlight, SendsAt
    <2> QED
      BY <2>1, <2>3, <2>4, <2>7
  <1>13. CASE /\ ~(room = 0 \/ (~s.is_syn_received /\ s.seg_queue # <<>>))
              /\ ~(\/ atEnd /\ fin_queued(s)
                   \/ n = 0 /\ s.is_syn_received /\ ~fin)
    <2>1. fill_window(s) = send(s, st, make_segments(s, data, fin))
      BY <1>4, <1>13
    <2>2. PICK segs : segs = make_segments(s, data, fin)
      OBVIOUS
    <2>3. ~FinSent(s)
      <3> SUFFICES ASSUME FinSent(s) PROVE FALSE
        OBVIOUS
      <3>1. s.stream.input_end /\ R = W /\ N = W + 2
        BY <1>10 DEF Account
      <3>2. n = 0
        BY <1>1, <1>5, <3>1
      <3>3. eof(st)
        BY <1>7, <1>9, <3>1, <3>2
      <3>4. CASE s.is_fin_received
        <4>1. s.is_syn_received
          BY <3>4 DEF SendsAt
        <4> QED
          BY <1>3, <1>13, <3>2, <3>4, <4>1, ZenonT(180)
      <3>5. CASE ~s.is_fin_received
        <4>1. PICK i \in DOMAIN s.seg_queue : s.seg_queue[i].fin
          BY <3>5 DEF FinSent
        <4>2. s.seg_queue \in Seq(SegmentRecord)
          BY <1>6 DEF SenderRecord
        <4>3. i \in 1 .. Len(s.seg_queue) /\ s.seg_queue # <<>>
          BY <4>1, <4>2
        <4>4. i = Len(s.seg_queue)
          BY <4>1, <4>3 DEF SendsAt, Flight
        <4>5. fin_queued(s)
          BY <4>1, <4>3, <4>4, ZenonT(180) DEF fin_queued
        <4> QED
          BY <1>3, <1>13, <3>3, <3>5, <4>5, ZenonT(180)
      <3> QED
        BY <3>4, <3>5
    <2>4. CASE s.is_syn_received
      <3>1. lo # 0 /\ N # 0 /\ N = R + 1
        <4>1. lo # 0
          BY <2>4 DEF SendsAt
        <4>2. N # 0
          BY <1>5, <4>1
        <4> QED
          BY <1>10, <2>3, <4>1, <4>2 DEF Account
      <3>2. data \in Seq(Nat) /\ Len(data) = n /\ \A k \in 1 .. n : data[k] = R + k
        BY <1>7, RunType DEF Run
      <3>3. MayCut(s, data, fin, next)
        <4>1. next \in Nat \ {0} /\ s.isn = Isn /\ s.next_seqno = next /\ s.is_syn_received = TRUE
          BY <1>5, <2>4, <3>1 DEF SendsAt, SenderRecord
        <4>2. \A k \in 1 .. Len(data) : data[k] = next + k - 1
          BY <1>5, <3>1, <3>2
        <4>3. Len(data) = 0 => fin = TRUE
          BY <1>3, <1>13, <2>4, <3>2
        <4> QED
          BY <1>3, <3>2, <4>1, <4>2, <4>3 DEF MayCut
      <3>4. PICK F \in 0 .. 1, new \in Nat :
               /\ F = FlagBit(fin) /\ new = next + Len(data) + FlagBit(fin) /\ new = N + n + F
               /\ (fin => F = 1) /\ (~fin => F = 0)
        <4>1. PICK F \in 0 .. 1 : F = FlagBit(fin) /\ (fin => F = 1) /\ (~fin => F = 0)
          BY DEF FlagBit
        <4>2. N + n + F \in Nat
          OBVIOUS
        <4> QED
          BY <1>5, <3>2, <4>1, <4>2
      <3>5. /\ \E m : Queued(segs, m, next, new)
            /\ Len(segs) \in Nat \ {0}
            /\ \A i \in 1 .. Len(segs) : segs[i].fin = (fin /\ i = Len(segs))
        <4>1. /\ \E m : Queued(segs, m, next, next + Len(data) + FlagBit(fin))
              /\ Len(segs) \in Nat \ {0}
              /\ \A i \in 1 .. Len(segs) : segs[i].fin = (fin /\ i = Len(segs))
          BY <2>2, <3>3, CutData
        <4>2. next + Len(data) + FlagBit(fin) = new
          BY <3>4
        <4> QED
          BY <4>1, <4>2, ZenonT(180)
      <3>6. fin => n + 1 <= room
        BY <1>1, <1>3, ZenonT(180) DEF fin_fits
      <3>7. new - lo <= s.window_size
        <4>1. room = w - (N - L)
          BY <1>1, <1>5, <1>13
        <4>2. n + F <= room
          BY <1>1, <3>4, <3>6
        <4>3. new = N + n + F
          BY <3>4
        <4>4. new - L <= w
          BY <4>1, <4>2, <4>3
        <4> QED
          BY <1>5, <4>4
      <3>8. Account(new, R + n, W, st.input_end, fin)
        <4>1. fin => st.input_end /\ R + n = W /\ new = W + 2
          <5> SUFFICES ASSUME fin PROVE st.input_end /\ R + n = W /\ new = W + 2
            OBVIOUS
          <5>1. eof(st)
            BY <1>3, ZenonT(180)
          <5>2. st.input_end /\ R + n = W /\ F = 1
            BY <1>9, <3>4, <5>1, ZenonT(180)
          <5>3. N = R + 1 /\ new = N + n + F /\ R + n = W /\ F = 1
            BY <3>1, <3>4, <5>2, ZenonT(180)
          <5>4. new = W + 2
            BY <5>3
          <5> QED
            BY <5>2, <5>4, ZenonT(180)
        <4>2. ~fin => new = (R + n) + 1
          BY <3>1, <3>4
        <4>3. new # 0
          BY <3>1, <3>4
        <4> QED
          BY <4>1, <4>2, <4>3, ZenonT(180) DEF Account
      <3>9. MaySend(s, rd, wr, lo, next, st, R + n, segs, new, fin)
        <4>1. segs # <<>>
          BY <3>5
        <4> QED
          BY <1>3, <1>5, <1>7, <2>3, <3>5, <3>7, <3>8, <4>1, ZenonT(180) DEF MaySend
      <3> QED
        BY <2>1, <2>2, <3>9, SendSegments
    <2>5. CASE ~s.is_syn_received
      <3>1. s.seg_queue = <<>>
        BY <1>13, <2>5
      <3>2. L = 0 /\ N = 0
        <4>1. PICK mark : Queued(s.seg_queue, mark, lo, next)
          BY DEF SendsAt, Flight
        <4>2. lo = next
          BY <3>1, <4>1, QueuedLength
        <4>3. lo = 0
          BY <2>5 DEF SendsAt
        <4> QED
          BY <1>5, <4>2, <4>3
      <3>3. W = 0 /\ ~s.stream.input_end /\ R = 0 /\ n = 0
        BY <1>1, <1>5, <1>10, <3>2 DEF Account
      <3>4. fin = FALSE
        BY <1>3, <1>7, <1>9, <3>3, ZenonT(180)
      <3>5. data = <<>>
        BY <1>7, <3>3, RunEmpty
      <3>6. MayConnect(s)
        <4>1. s.is_syn_received = FALSE
          BY <1>6, <2>5 DEF SenderRecord
        <4> QED
          BY <1>5, <3>2, <4>1 DEF MayConnect, SendsAt
      <3>7. /\ \E m : Queued(segs, m, next, 1)
            /\ Len(segs) = 1 /\ segs[1].fin = FALSE
        BY <1>5, <2>2, <3>2, <3>4, <3>5, <3>6, CutSyn, ZenonT(180)
      <3>8. segs # <<>> /\ \A i \in 1 .. Len(segs) : segs[i].fin = (fin /\ i = Len(segs))
        <4>1. segs # <<>>
          BY <3>7
        <4>2. ASSUME NEW i \in 1 .. Len(segs) PROVE segs[i].fin = (fin /\ i = Len(segs))
          <5>1. i = 1
            BY <3>7
          <5> QED
            BY <3>4, <3>7, <5>1, ZenonT(180)
        <4> QED
          BY <4>1, <4>2
      <3>9. Account(1, R + n, W, st.input_end, fin)
        BY <1>7, <3>3, <3>4 DEF Account
      <3>10. 1 - lo <= s.window_size
        BY <1>5, <1>6, <3>2
      <3>11. MaySend(s, rd, wr, lo, next, st, R + n, segs, 1, fin)
        BY <1>3, <1>5, <1>7, <2>3, <3>7, <3>8, <3>9, <3>10, ZenonT(180) DEF MaySend
      <3> QED
        BY <2>1, <2>2, <3>11, SendSegments
    <2> QED
      BY <2>4, <2>5
  <1> QED
    BY <1>11, <1>12, <1>13

-----------------------------------------------------------------------------
(* Acknowledgments. *)

(* The first n segments of the queue can be removed. *)
CanPop(s, rd, wr, lo, next, n) ==
    SendsAt(s, rd, wr, lo, next) /\ n \in 1 .. Len(s.seg_queue)

(* What is left after segments of s have been removed. *)
Popped(s, t, rd, wr, next) ==
    /\ \E low : SendsAt(t, rd, wr, low, next)
    /\ t.window_size = s.window_size /\ t.segments_out = s.segments_out
    /\ t.next_seqno = s.next_seqno
    /\ t.consecutive_retrans = 0 /\ t.rto = InitialRto /\ t.age = 0

(* Removing acknowledged segments keeps the invariant of the data, and     *)
(* notices the acknowledgment of the SYN and of the FIN.                   *)
LEMMA PopSends ==
    ASSUME NEW s, NEW rd, NEW wr, NEW lo, NEW next, NEW n, CanPop(s, rd, wr, lo, next, n)
    PROVE  Popped(s, restart_timer(pop_acked(s, n)), rd, wr, next)
  <1>0. SendsAt(s, rd, wr, lo, next)
    BY DEF CanPop
  <1>100. PICK q : q = s.seg_queue
    OBVIOUS
  <1>101. q \in Seq(SegmentRecord)
    BY <1>0, <1>100 DEF SendsAt, SenderRecord
  <1>1. PICK size \in Nat : q = s.seg_queue /\ size = Len(q) /\ q \in Seq(SegmentRecord)
    BY <1>100, <1>101
  <1>2. n \in 1 .. size /\ n \in Nat
    BY <1>1 DEF CanPop
  <1>3. PICK mark : Queued(q, mark, lo, next)
    BY <1>0, <1>1 DEF SendsAt, Flight
  <1>4. PICK L \in Nat, N \in Nat, low \in Nat :
           L = lo /\ N = next /\ low = mark[n + 1] /\ L < low /\ low <= N /\ N - L < Half
    <2>1. lo \in Nat /\ next \in Nat /\ next - lo < Half
      BY <1>0 DEF SendsAt
    <2>2. n + 1 \in 1 .. size + 1 /\ 1 \in 1 .. size + 1 /\ size + 1 \in 1 .. size + 1
      BY <1>2
    <2>3. mark[n + 1] \in Nat /\ mark[1] = lo /\ mark[size + 1] = next
      BY <1>1, <1>3, <2>2 DEF Queued
    <2>4. \A i, j \in 1 .. size + 1 : i < j => mark[i] < mark[j]
      BY <1>1, <1>3 DEF Queued
    <2>5. mark[1] < mark[n + 1]
      BY <1>2, <2>2, <2>4
    <2>6. mark[n + 1] <= mark[size + 1]
      <3>1. CASE n = size
        BY <2>1, <2>3, <3>1
      <3>2. CASE n < size
        BY <2>1, <2>2, <2>3, <2>4, <3>2
      <3> QED
        BY <1>2, <3>1, <3>2
    <2> QED
      BY <2>1, <2>3, <2>5, <2>6
  <1>5. released(q, n) = low - L
    <2>1. n \in 0 .. Len(q)
      BY <1>1, <1>2
    <2>2. length_of_first(q, n) = mark[n + 1] - lo
      BY <1>3, <2>1, MarkOfFirst
    <2> QED
      BY <1>4, <2>2 DEF released
  <1>6. PICK rest : rest = SubSeq(q, n + 1, Len(q))
    BY ZenonT(180)
  <1>7. /\ \E m : Queued(rest, m, low, next)
        /\ Len(rest) = size - n
        /\ \A i \in 1 .. size - n : rest[i] = q[n + i]
    <2>1. n \in 0 .. Len(q)
      BY <1>1, <1>2
    <2>2. /\ \E m : Queued(rest, m, mark[n + 1], next)
          /\ Len(rest) = Len(q) - n
          /\ \A i \in 1 .. Len(q) - n : rest[i] = q[n + i]
      BY <1>3, <1>6, <2>1, DropQueue
    <2> QED
      BY <1>1, <1>4, <2>2
  <1>8. rest \in Seq(SegmentRecord)
    BY <1>7 DEF Queued
  <1>9. \A i \in 1 .. size : q[i].fin => i = size
    BY <1>0, <1>1 DEF SendsAt, Flight
  <1>10. Flight(rest, low, next)
    <2>1. ASSUME NEW i \in 1 .. Len(rest), rest[i].fin PROVE i = Len(rest)
      <3>1. i \in 1 .. size - n /\ n + i \in 1 .. size
        BY <1>2, <1>7
      <3>2. q[n + i].fin
        BY <1>7, <2>1, <3>1
      <3>3. n + i = size
        BY <1>9, <3>1, <3>2
      <3> QED
        BY <1>2, <1>7, <3>1, <3>3
    <2> QED
      BY <1>7, <2>1 DEF Flight
  <1>11. PICK syn \in BOOLEAN, fin \in BOOLEAN, b \in Nat :
            /\ syn = (s.is_syn_received \/ \E i \in 1 .. n : q[i].syn)
            /\ fin = (s.is_fin_received \/ \E i \in 1 .. n : q[i].fin)
            /\ b = N - low
    <2>1. PICK b \in Nat : b = N - low
      BY <1>4
    <2>2. PICK syn \in BOOLEAN : syn = (s.is_syn_received \/ \E i \in 1 .. n : q[i].syn)
      BY ZenonT(180)
    <2>3. PICK fin \in BOOLEAN : fin = (s.is_fin_received \/ \E i \in 1 .. n : q[i].fin)
      BY ZenonT(180)
    <2> QED
      BY <2>1, <2>2, <2>3, ZenonT(180)
  <1>12. PICK t : t = restart_timer(pop_acked(s, n))
    OBVIOUS
  <1>13. s \in SenderRecord /\ s.bytes_in_flight = N - L
    BY <1>0, <1>4 DEF SendsAt
  <1>14. pop_acked(s, n) = [s EXCEPT !.seg_queue = rest, !.bytes_in_flight = b, !.is_syn_received = syn,
                                     !.is_fin_received = fin, !.consecutive_retrans = 0]
    <2>1. s.bytes_in_flight - released(q, n) = b
      BY <1>4, <1>5, <1>11, <1>13
    <2> QED
      BY <1>1, <1>6, <1>11, <1>13, <2>1, ZenonT(180) DEF pop_acked
  <1>15. PICK r \in Nat : r = InitialRto
    BY Constants
  <1>16. t = [s EXCEPT !.seg_queue = rest, !.bytes_in_flight = b, !.is_syn_received = syn,
                       !.is_fin_received = fin, !.consecutive_retrans = 0, !.rto = r, !.age = 0]
    BY <1>12, <1>13, <1>14, <1>15 DEF restart_timer, SenderRecord
  <1>17. /\ t \in SenderRecord /\ t.isn = s.isn /\ t.stream = s.stream /\ t.seg_queue = rest
         /\ t.bytes_in_flight = b /\ t.next_seqno = s.next_seqno
         /\ t.is_syn_received = syn /\ t.is_fin_received = fin
         /\ t.window_size = s.window_size /\ t.segments_out = s.segments_out
         /\ t.consecutive_retrans = 0 /\ t.rto = r /\ t.age = 0
    BY <1>8, <1>13, <1>16, ZenonT(180) DEF SenderRecord
  <1>18. FinSent(t) = FinSent(s)
    <2>1. DOMAIN q = 1 .. size /\ DOMAIN rest = 1 .. size - n
      BY <1>1, <1>7, <1>8
    <2>2. (\E i \in 1 .. size : q[i].fin) <=> (\E i \in 1 .. n : q[i].fin) \/ (\E i \in 1 .. size - n : rest[i].fin)
      <3>1. ASSUME NEW i \in 1 .. size, q[i].fin
            PROVE  (\E k \in 1 .. n : q[k].fin) \/ (\E k \in 1 .. size - n : rest[k].fin)
        <4>1. CASE i <= n
          <5>1. i \in 1 .. n
            BY <4>1
          <5> QED
            BY <3>1, <5>1
        <4>2. CASE i > n
          <5>1. PICK k \in 1 .. size - n : n + k = i
            <6>1. i - n \in 1 .. size - n /\ n + (i - n) = i
              BY <1>2, <4>2
            <6> QED
              BY <6>1
          <5>2. rest[k].fin
            BY <1>7, <3>1, <5>1
          <5> QED
            BY <5>2
        <4> QED
          BY <1>2, <4>1, <4>2
      <3>2. ASSUME NEW i \in 1 .. n, q[i].fin PROVE \E k \in 1 .. size : q[k].fin
        BY <1>2, <3>2
      <3>3. ASSUME NEW i \in 1 .. size - n, rest[i].fin PROVE \E k \in 1 .. size : q[k].fin
        <4>1. n + i \in 1 .. size
          BY <1>2
        <4> QED
          BY <1>7, <3>3, <4>1
      <3> QED
        BY <3>1, <3>2, <3>3, ZenonT(180)
    <2> QED
      BY <1>1, <1>11, <1>17, <2>1, <2>2, ZenonT(180) DEF FinSent
  <1>19. syn
    <2>1. CASE s.is_syn_received
      BY <1>11, <2>1, ZenonT(180)
    <2>2. CASE ~s.is_syn_received
      <3>1. lo = 0
        BY <1>0, <2>2 DEF SendsAt
      <3>2. 1 \in 1 .. n /\ 1 \in 1 .. size
        BY <1>2
      <3>3. IsSegment(q[1], mark[1], mark[1 + 1]) /\ mark[1] = lo
        BY <1>1, <1>3, <3>2 DEF Queued
      <3>4. q[1].syn
        BY <3>1, <3>3 DEF IsSegment
      <3> QED
        BY <1>11, <3>2, <3>4, ZenonT(180)
    <2> QED
      BY <2>1, <2>2
  <1>20. low # 0
    BY <1>4
  <1>21. SendsAt(t, rd, wr, low, next)
    <2>1. /\ low \in Nat /\ next \in Nat /\ low <= next /\ next - low < Half
          /\ t.bytes_in_flight = next - low
      BY <1>4, <1>11, <1>17, Constants
    <2>2. (t.is_syn_received <=> low # 0) /\ (t.is_fin_received => low # 0)
      BY <1>17, <1>19, <1>20
    <2> QED
      BY <1>0, <1>10, <1>17, <1>18, <2>1, <2>2, ZenonT(180) DEF SendsAt
  <1>22. Popped(s, t, rd, wr, next)
    BY <1>15, <1>17, <1>21, ZenonT(180) DEF Popped
  <1> QED
    BY <1>12, <1>22, ZenonT(180)

(* seg is the segment for a .. b - 1, in flight, and s computes a and b. *)
Decoded(s, seg, a, b, lo, next) ==
    /\ a \in Nat /\ b \in Nat /\ lo <= a /\ a < b /\ b <= next
    /\ IsSegment(seg, a, b) /\ segment_end(s, seg) = b
    /\ segment_end(s, seg) - length_in_sequence_space(seg) = a

(* The absolute numbers computed from the 32-bit ones are right for every  *)
(* segment of the queue.                                                   *)
LEMMA QueueDecodes ==
    ASSUME NEW s, NEW rd, NEW wr, NEW lo, NEW next, SendsAt(s, rd, wr, lo, next),
           NEW mark, Queued(s.seg_queue, mark, lo, next), NEW i \in 1 .. Len(s.seg_queue)
    PROVE  Decoded(s, s.seg_queue[i], mark[i], mark[i + 1], lo, next)
  <1>1. PICK q : q = s.seg_queue
    OBVIOUS
  <1>2. PICK n \in Nat : n = Len(q)
    BY <1>1 DEF SendsAt, SenderRecord
  <1>3. Queued(q, mark, lo, next) /\ i \in 1 .. n
    BY <1>1, <1>2
  <1>4. /\ mark[1] = lo /\ mark[n + 1] = next /\ \A k \in 1 .. n + 1 : mark[k] \in Nat
        /\ \A j, k \in 1 .. n + 1 : j < k => mark[j] < mark[k]
        /\ IsSegment(q[i], mark[i], mark[i + 1])
    BY <1>2, <1>3 DEF Queued
  <1>5. i \in 1 .. n + 1 /\ i + 1 \in 1 .. n + 1 /\ 1 \in 1 .. n + 1 /\ n + 1 \in 1 .. n + 1 /\ i < i + 1
    BY <1>3
  <1>6. mark[i] \in Nat /\ mark[i + 1] \in Nat /\ mark[i] < mark[i + 1]
    BY <1>4, <1>5
  <1>7. mark[1] <= mark[i]
    BY <1>3, <1>4, <1>5, <1>6
  <1>8. mark[i + 1] <= mark[n + 1]
    BY <1>3, <1>4, <1>5, <1>6
  <1>9. PICK N \in Nat, L \in Nat, a \in Nat, b \in Nat :
           /\ N = next /\ L = lo /\ a = mark[i] /\ b = mark[i + 1]
           /\ L <= a /\ a < b /\ b <= N /\ N - L < Half /\ N <= MaxBytes + 2
    <2>1. next \in Nat /\ lo \in Nat /\ next - lo < Half
      BY DEF SendsAt
    <2>2. next <= MaxBytes + 2
      BY AccountBounds
    <2> QED
      BY <1>4, <1>6, <1>7, <1>8, <2>1, <2>2, ZenonT(180)
  <1>10. Distance(a, N) < Half /\ a <= MaxBytes + 2
    BY <1>9, Constants DEF Distance
  <1>11. s.isn = Isn /\ s.next_seqno = N
    BY <1>9 DEF SendsAt
  <1>12. IsSegment(q[i], a, b)
    BY <1>4, <1>9
  <1>13. segment_end(s, q[i]) = b
    BY <1>9, <1>10, <1>11, <1>12, Decode
  <1>14. length_in_sequence_space(q[i]) = b - a
    BY <1>12 DEF IsSegment
  <1>15. b - (b - a) = a
    OBVIOUS
  <1>16. Decoded(s, q[i], a, b, lo, next)
    BY <1>9, <1>12, <1>13, <1>14, <1>15, ZenonT(180) DEF Decoded
  <1> QED
    BY <1>1, <1>9, <1>16, ZenonT(180)

(* What the timer sees of an acknowledgment: nothing, or it starts over.   *)
Acked(s, t) ==
    /\ t.segments_out = s.segments_out /\ t.next_seqno = s.next_seqno
    /\ \/ /\ t.seg_queue = s.seg_queue /\ t.consecutive_retrans = s.consecutive_retrans
          /\ t.rto = s.rto /\ t.age = s.age
       \/ t.consecutive_retrans = 0 /\ t.rto = InitialRto /\ t.age = 0

(* An acknowledgment arrives. *)
CanAck(s, rd, wr, lo, next, ackno, win) ==
    SendsAt(s, rd, wr, lo, next) /\ ackno \in WrappingInt32 /\ win \in Windows

(* ack_received keeps the invariant of the data, whatever number and       *)
(* window the peer sends.                                                  *)
LEMMA AckSends ==
    ASSUME NEW s, NEW rd, NEW wr, NEW lo, NEW next, NEW ackno, NEW win,
           CanAck(s, rd, wr, lo, next, ackno, win)
    PROVE  /\ \E low : SendsAt(ack_received(s, ackno, win), rd, wr, low, next)
           /\ Acked(s, ack_received(s, ackno, win))
  <1>0. SendsAt(s, rd, wr, lo, next) /\ ackno \in WrappingInt32 /\ win \in Windows
    BY DEF CanAck
  <1>1. PICK ack_seqno \in Nat : ack_seqno = unwrap(ackno, s.isn, s.next_seqno)
    <2>1. next \in Nat /\ s.isn = Isn /\ s.next_seqno = next
      BY <1>0 DEF SendsAt
    <2>2. next \in AbsoluteSeqno
      BY <1>0, <2>1, AccountBounds, Constants
    <2>3. unwrap(ackno, Isn, next) \in AbsoluteSeqno
      BY <1>0, <2>2, Constants, UnwrapNearest
    <2>4. AbsoluteSeqno \subseteq Nat
      BY Widths DEF AbsoluteSeqno
    <2> QED
      BY <2>1, <2>3, <2>4, ZenonT(180)
  <1>2. PICK q : q = s.seg_queue
    OBVIOUS
  <1>3. q \in Seq(SegmentRecord) /\ s \in SenderRecord
    BY <1>0, <1>2 DEF SendsAt, SenderRecord
  <1>4. PICK size \in Nat : size = Len(q)
    BY <1>3
  <1> DEFINE acked == CHOOSE n \in 0 .. Len(s.seg_queue) :
                /\ \A i \in 1 .. n : segment_end(s, s.seg_queue[i]) <= unwrap(ackno, s.isn, s.next_seqno)
                /\ n < Len(s.seg_queue) =>
                      segment_end(s, s.seg_queue[n + 1]) > unwrap(ackno, s.isn, s.next_seqno)
  <1>6. acked \in 0 .. size
    <2>1. \A i \in 1 .. size : segment_end(s, q[i]) \in Nat
      <3>1. PICK mark : Queued(q, mark, lo, next)
        BY <1>0, <1>2, ZenonT(180) DEF SendsAt, Flight
      <3> TAKE i \in 1 .. size
      <3>2. i \in 1 .. Len(s.seg_queue) /\ Queued(s.seg_queue, mark, lo, next)
        BY <1>2, <1>4, <3>1, ZenonT(180)
      <3>3. Decoded(s, q[i], mark[i], mark[i + 1], lo, next)
        BY <1>0, <1>2, <3>2, QueueDecodes, ZenonT(180)
      <3> QED
        BY <3>3, ZenonT(180) DEF Decoded
    <2> DEFINE T == {n \in 0 .. size : n < size => segment_end(s, q[n + 1]) > ack_seqno}
    <2>2. T \in SUBSET Nat /\ size \in T
      OBVIOUS
    <2>3. PICK n \in T : \A k \in T : n <= k
      BY <2>2, LeastNumber, ZenonT(180)
    <2>4. ASSUME NEW i \in 1 .. n PROVE segment_end(s, q[i]) <= ack_seqno
      <3>1. i - 1 \in 0 .. size /\ i - 1 \notin T /\ (i - 1) + 1 = i /\ i \in 1 .. size
        BY <2>3
      <3>2. ~(segment_end(s, q[i]) > ack_seqno)
        BY <3>1
      <3> QED
        BY <2>1, <3>1, <3>2
    <2>5. /\ n \in 0 .. size /\ \A i \in 1 .. n : segment_end(s, q[i]) <= ack_seqno
          /\ n < size => segment_end(s, q[n + 1]) > ack_seqno
      BY <2>3, <2>4
    <2>6. /\ n \in 0 .. Len(s.seg_queue)
          /\ \A i \in 1 .. n : segment_end(s, s.seg_queue[i]) <= unwrap(ackno, s.isn, s.next_seqno)
          /\ n < Len(s.seg_queue) =>
                segment_end(s, s.seg_queue[n + 1]) > unwrap(ackno, s.isn, s.next_seqno)
      BY <1>1, <1>2, <1>4, <2>5, ZenonT(180)
    <2>7. acked \in 0 .. Len(s.seg_queue)
      BY <2>6, ZenonT(180)
    <2> QED
      BY <1>2, <1>4, <2>7
  <1> HIDE DEF acked
  <1>7. PICK w \in Nat, z \in BOOLEAN : w = (IF win = 0 THEN 1 ELSE win) /\ z = (win = 0)
    <2>1. win \in Nat
      BY <1>0, Constants
    <2> QED
      BY <2>1, ZenonT(180)
  <1>8. PICK opened : opened = [s EXCEPT !.window_size = w, !.is_window_zero = z]
    OBVIOUS
  <1>9. ack_received(s, ackno, win) =
           IF ack_seqno > s.next_seqno THEN s
           ELSE IF acked = 0 THEN opened
           ELSE restart_timer(pop_acked(opened, acked))
    <2> DEFINE O == [s EXCEPT !.window_size = IF win = 0 THEN 1 ELSE win, !.is_window_zero = (win = 0)]
    <2>1. ack_received(s, ackno, win) =
             IF unwrap(ackno, s.isn, s.next_seqno) > s.next_seqno THEN s
             ELSE IF acked = 0 THEN O
             ELSE restart_timer(pop_acked(O, acked))
      BY ZenonT(180) DEF ack_received, acked
    <2>2. O = opened
      BY <1>7, <1>8, ZenonT(180)
    <2> HIDE DEF O
    <2> QED
      BY <1>1, <2>1, <2>2, ZenonT(180)
  <1>10. /\ opened \in SenderRecord /\ opened.isn = s.isn /\ opened.next_seqno = s.next_seqno
         /\ opened.bytes_in_flight = s.bytes_in_flight /\ opened.seg_queue = s.seg_queue
         /\ opened.is_syn_received = s.is_syn_received
         /\ opened.is_fin_received = s.is_fin_received /\ opened.window_size = w
         /\ opened.stream = s.stream /\ opened.segments_out = s.segments_out
         /\ opened.consecutive_retrans = s.consecutive_retrans
         /\ opened.rto = s.rto /\ opened.age = s.age
    BY <1>3, <1>7, <1>8, ZenonT(180) DEF SenderRecord
  <1>11. w > 0 /\ w < Half
    <2>1. win \in Nat /\ win < Half /\ 1 < Half
      BY <1>0, Constants
    <2> QED
      BY <1>7, <2>1
  <1>12. SendsAt(opened, rd, wr, lo, next)
    <2>1. SameFlight(s, opened)
      BY <1>10, <1>11 DEF SameFlight
    <2> QED
      BY <1>0, <1>10, <2>1, SameSends
  <1>13. CASE ack_seqno > s.next_seqno
    <2>1. ack_received(s, ackno, win) = s
      BY <1>9, <1>13
    <2>2. Acked(s, s)
      BY DEF Acked
    <2> QED
      BY <1>0, <2>1, <2>2
  <1>14. CASE ~(ack_seqno > s.next_seqno) /\ acked = 0
    <2>1. ack_received(s, ackno, win) = opened
      BY <1>9, <1>14
    <2>2. Acked(s, opened)
      BY <1>10 DEF Acked
    <2> QED
      BY <1>12, <2>1, <2>2
  <1>15. CASE ~(ack_seqno > s.next_seqno) /\ acked # 0
    <2>1. PICK t : t = restart_timer(pop_acked(opened, acked))
      OBVIOUS
    <2>2. ack_received(s, ackno, win) = t
      BY <1>9, <1>15, <2>1
    <2>3. acked \in 1 .. Len(opened.seg_queue)
      BY <1>2, <1>4, <1>6, <1>10, <1>15
    <2>4. CanPop(opened, rd, wr, lo, next, acked)
      BY <1>12, <2>3 DEF CanPop
    <2>5. /\ \E low : SendsAt(t, rd, wr, low, next)
          /\ t.segments_out = opened.segments_out
          /\ t.next_seqno = opened.next_seqno
          /\ t.consecutive_retrans = 0 /\ t.rto = InitialRto /\ t.age = 0
      <3>1. Popped(opened, t, rd, wr, next)
        BY <2>1, <2>4, PopSends, ZenonT(180)
      <3> QED
        BY <3>1, ZenonT(180) DEF Popped
    <2>6. Acked(s, t)
      BY <1>10, <2>5 DEF Acked
    <2> QED
      BY <2>2, <2>5, <2>6
  <1> QED
    BY <1>13, <1>14, <1>15

-----------------------------------------------------------------------------
(* The timeout. *)

(* f doubles the initial timeout k times. *)
Doubles(f, k) == f = [i \in 0 .. k |-> IF i = 0 THEN InitialRto ELSE 2 * f[i - 1]]

(* There is such a function. *)
LEMMA DoublesExists == \A k \in Nat : \E f : Doubles(f, k)
  <1> DEFINE T == {k \in Nat : ~ \E f : Doubles(f, k)}
  <1> SUFFICES ASSUME T # {} PROVE FALSE
    OBVIOUS
  <1>1. T \in SUBSET Nat
    OBVIOUS
  <1>2. PICK k \in T : \A l \in T : k <= l
    BY <1>1, LeastNumber, ZenonT(180)
  <1>3. k \in Nat /\ ~ \E f : Doubles(f, k)
    BY <1>2
  <1>4. CASE k = 0
    <2>1. PICK f : f = [i \in 0 .. 0 |-> InitialRto]
      BY ZenonT(180)
    <2>2. \A i \in 0 .. 0 : (IF i = 0 THEN InitialRto ELSE 2 * f[i - 1]) = InitialRto
      OBVIOUS
    <2>3. Doubles(f, 0)
      BY <2>1, <2>2, ZenonT(180) DEF Doubles
    <2> QED
      BY <1>3, <1>4, <2>3
  <1>5. CASE k # 0
    <2>1. k - 1 \in Nat /\ k - 1 \notin T
      BY <1>2, <1>3, <1>5
    <2>2. PICK f : Doubles(f, k - 1)
      BY <2>1
    <2>3. \A i \in 0 .. k - 1 : f[i] = IF i = 0 THEN InitialRto ELSE 2 * f[i - 1]
      BY <2>2 DEF Doubles
    <2> DEFINE g == [i \in 0 .. k |-> IF i < k THEN f[i] ELSE 2 * f[k - 1]]
    <2>4. ASSUME NEW i \in 0 .. k PROVE g[i] = IF i = 0 THEN InitialRto ELSE 2 * g[i - 1]
      <3>1. CASE i = 0
        <4>1. 0 \in 0 .. k - 1 /\ 0 < k
          BY <1>3, <1>5
        <4>2. g[i] = f[0]
          BY <3>1, <4>1
        <4> QED
          BY <2>3, <3>1, <4>1, <4>2
      <3>2. CASE i # 0 /\ i < k
        <4>1. i \in 0 .. k - 1 /\ i - 1 \in 0 .. k /\ i - 1 < k
          BY <1>3, <3>2
        <4>2. g[i] = f[i] /\ g[i - 1] = f[i - 1]
          BY <3>2, <4>1
        <4>3. f[i] = 2 * f[i - 1]
          BY <2>3, <3>2, <4>1
        <4> QED
          BY <3>2, <4>2, <4>3
      <3>3. CASE i # 0 /\ i = k
        <4>1. k - 1 \in 0 .. k /\ k - 1 < k
          BY <1>3, <3>3
        <4>2. g[i] = 2 * f[k - 1] /\ g[k - 1] = f[k - 1]
          BY <3>3, <4>1
        <4> QED
          BY <3>3, <4>2
      <3> QED
        BY <1>3, <3>1, <3>2, <3>3
    <2>5. g = [i \in 0 .. k |-> g[i]]
      OBVIOUS
    <2> HIDE DEF g
    <2>6. Doubles(g, k)
      BY <2>4, <2>5, ZenonT(180) DEF Doubles
    <2> QED
      BY <1>3, <2>6
  <1> QED
    BY <1>4, <1>5

(* There is only one. *)
LEMMA DoublesAgree ==
    ASSUME NEW f, NEW k \in Nat, Doubles(f, k), NEW g, NEW l \in Nat, Doubles(g, l)
    PROVE  \A i \in Nat : i <= k /\ i <= l => f[i] = g[i] /\ f[i] \in Nat \ {0}
  <1> DEFINE T == {i \in Nat : i <= k /\ i <= l /\ ~(f[i] = g[i] /\ f[i] \in Nat \ {0})}
  <1> SUFFICES ASSUME T # {} PROVE FALSE
    OBVIOUS
  <1>1. T \in SUBSET Nat
    OBVIOUS
  <1>2. PICK i \in T : \A j \in T : i <= j
    BY <1>1, LeastNumber, ZenonT(180)
  <1>3. i \in Nat /\ i <= k /\ i <= l /\ ~(f[i] = g[i] /\ f[i] \in Nat \ {0})
    BY <1>2
  <1>4. /\ f[i] = IF i = 0 THEN InitialRto ELSE 2 * f[i - 1]
        /\ g[i] = IF i = 0 THEN InitialRto ELSE 2 * g[i - 1]
    BY <1>3 DEF Doubles
  <1>5. CASE i = 0
    BY <1>3, <1>4, <1>5, Constants
  <1>6. CASE i # 0
    <2>1. i - 1 \in Nat /\ i - 1 <= k /\ i - 1 <= l /\ i - 1 \notin T
      BY <1>2, <1>3, <1>6
    <2>2. f[i - 1] = g[i - 1] /\ f[i - 1] \in Nat \ {0}
      BY <2>1
    <2> QED
      BY <1>3, <1>4, <1>6, <2>2
  <1> QED
    BY <1>5, <1>6

(* The recursion of backoff is what it looks like. *)
LEMMA Backoff ==
    /\ backoff(0) = InitialRto
    /\ \A k \in Nat : backoff(k) \in Nat \ {0} /\ backoff(k + 1) = 2 * backoff(k)
  <1>1. ASSUME NEW k \in Nat PROVE \E f : Doubles(f, k) /\ backoff(k) = f[k]
    <2>1. PICK f : f = CHOOSE g : Doubles(g, k)
      OBVIOUS
    <2>2. Doubles(f, k)
      BY <2>1, DoublesExists, ZenonT(180)
    <2>3. backoff(k) = f[k]
      BY <2>1, ZenonT(180) DEF backoff, Doubles
    <2> QED
      BY <2>2, <2>3
  <1>2. backoff(0) = InitialRto
    <2>1. PICK f : Doubles(f, 0) /\ backoff(0) = f[0]
      BY <1>1
    <2>2. f[0] = InitialRto
      BY <2>1 DEF Doubles
    <2> QED
      BY <2>1, <2>2
  <1>3. ASSUME NEW k \in Nat PROVE backoff(k) \in Nat \ {0} /\ backoff(k + 1) = 2 * backoff(k)
    <2>1. PICK f : Doubles(f, k) /\ backoff(k) = f[k]
      BY <1>1
    <2>2. PICK l \in Nat : l = k + 1
      OBVIOUS
    <2>3. PICK g : Doubles(g, l) /\ backoff(l) = g[l]
      BY <1>1
    <2>4. k <= k /\ k <= l /\ l # 0 /\ l - 1 = k
      BY <2>2
    <2>5. f[k] = g[k] /\ f[k] \in Nat \ {0}
      BY <2>1, <2>3, <2>4, DoublesAgree
    <2>6. g[l] = 2 * g[l - 1]
      BY <2>3, <2>4 DEF Doubles
    <2> QED
      BY <2>1, <2>2, <2>3, <2>4, <2>5, <2>6
  <1> QED
    BY <1>2, <1>3

-----------------------------------------------------------------------------
(* The invariant, and every step. *)

(* A segment without sequence numbers. *)
Blank(seg) == seg.payload = <<>> /\ seg.syn = FALSE /\ seg.fin = FALSE

(* What is to be sent is in the retransmission queue too, or is blank.     *)
OutOk(s) ==
    \A i \in 1 .. Len(s.segments_out) :
        Blank(s.segments_out[i]) \/ \E j \in 1 .. Len(s.seg_queue) : s.segments_out[i] = s.seg_queue[j]

(* BackoffMatchesCount, of a sender s. *)
TimerOk(s) ==
    /\ \E k \in 0 .. s.consecutive_retrans : s.rto = backoff(k)
    /\ s.age < s.rto
    /\ s.seg_queue = <<>> => s.consecutive_retrans = 0

(* The inductive invariant. QueueIsInFlight is not inductive by itself:    *)
(* whether the 32-bit numbers in the queue decode to the right absolute    *)
(* ones depends on less than half the circle being in flight, which        *)
(* depends on the window; and what fill_window sends next is right only if *)
(* the stream holds the bytes from next_seqno on.                          *)
IInv == Sends(sender) /\ OutOk(sender) /\ TimerOk(sender)

(* The body of WindowRespected. *)
WindowStep == sender'.next_seqno > sender.next_seqno => sender'.bytes_in_flight <= sender'.window_size

(* The body of OnlyTimeoutResends, for the segments. *)
ResendStep ==
    \A i \in DOMAIN sender'.segments_out :
        LET seg == sender'.segments_out[i]
        IN  length_in_sequence_space(seg) > 0 /\ seg \in {queue[j] : j \in DOMAIN queue}
            => seg = queue[1] /\ \E ms \in Ticks : sender.age + ms >= sender.rto

(* s is the sender after everything to be sent has been taken away. *)
Drained(s) ==
    /\ s.segments_out = <<>> /\ s.seg_queue = sender.seg_queue /\ s.next_seqno = sender.next_seqno
    /\ s.consecutive_retrans = sender.consecutive_retrans /\ s.rto = sender.rto /\ s.age = sender.age
    /\ s.stream = sender.stream /\ s.window_size = sender.window_size
    /\ s.is_window_zero = sender.is_window_zero

(* Taking it away keeps the invariant. *)
LEMMA DrainedSends ==
    ASSUME IInv
    PROVE  /\ \E rd, wr, lo, next : SendsAt(drained, rd, wr, lo, next)
           /\ Drained(drained) /\ TimerOk(drained)
  <1>1. PICK rd, wr, lo, next : SendsAt(sender, rd, wr, lo, next)
    BY DEF IInv, Sends
  <1>2. sender \in SenderRecord /\ sender.window_size > 0 /\ sender.window_size < Half
    BY <1>1 DEF SendsAt
  <1>3. PICK e \in Seq(SegmentRecord) : e = <<>>
    <2>1. <<>> \in Seq(SegmentRecord)
      OBVIOUS
    <2> QED
      BY <2>1, ZenonT(180)
  <1>4. drained = [sender EXCEPT !.segments_out = e]
    BY <1>3 DEF drained
  <1>5. SameFlight(sender, drained) /\ drained.stream = sender.stream
    BY <1>2, <1>4, ZenonT(180) DEF SenderRecord, SameFlight
  <1>6. Drained(drained)
    BY <1>2, <1>3, <1>4 DEF SenderRecord, Drained
  <1>7. SendsAt(drained, rd, wr, lo, next)
    BY <1>1, <1>5, SameSends
  <1>8. TimerOk(drained)
    BY <1>6, ZenonT(180) DEF IInv, TimerOk, Drained
  <1> QED
    BY <1>6, <1>7, <1>8

(* Nothing is to be sent. *)
LEMMA NothingOut ==
    ASSUME NEW t, t.segments_out = <<>>
    PROVE  OutOk(t)
  BY DEF OutOk

(* A call after which nothing is to be sent violates no property of steps. *)
LEMMA QuietStep ==
    ASSUME sender'.segments_out = <<>>, sender'.next_seqno = sender.next_seqno, IInv
    PROVE  WindowStep /\ ResendStep
  <1>1. sender.next_seqno \in Nat
    BY DEF IInv, Sends, SendsAt
  <1> QED
    BY <1>1 DEF WindowStep, ResendStep

(* The application writes. *)
LEMMA WriteStep ==
    ASSUME IInv, ClientMay = {}, NEW k \in 1 .. MaxBytes, Write(k)
    PROVE  IInv' /\ WindowStep /\ ResendStep
  <1>1. PICK rd, wr, lo, next : SendsAt(drained, rd, wr, lo, next)
    BY DrainedSends
  <1>2. Drained(drained) /\ TimerOk(drained)
    BY DrainedSends
  <1>3. next # 0 /\ next = sender.next_seqno
    <2>1. next = sender.next_seqno /\ next \in Nat
      BY <1>1, <1>2 DEF Drained, SendsAt
    <2> QED
      BY <2>1 DEF Write, Connected
  <1>4. PICK d : d = drained
    OBVIOUS
  <1>5. d \in SenderRecord /\ d.window_size > 0 /\ d.window_size < Half /\ StreamIs(d.stream, rd, wr)
    BY <1>1, <1>4 DEF SendsAt
  <1>6. d.stream = sender.stream /\ sender.stream.bytes_written = wr
    BY <1>2, <1>4, <1>5 DEF Drained, StreamIs
  <1>7. PICK st : st = stream_write(d.stream, [i \in 1 .. k |-> wr + i])
    OBVIOUS
  <1>8. /\ \E w \in Nat : w > wr /\ StreamIs(st, rd, w)
        /\ st.input_end = d.stream.input_end
    <2>1. CanWrite(d.stream, rd, wr, k)
      <3>1. k \in Nat \ {0}
        BY Constants
      <3>2. wr + k <= MaxBytes /\ remaining_capacity(d.stream) > 0
        BY <1>6 DEF Write, stream
      <3> QED
        BY <1>5, <3>1, <3>2 DEF CanWrite
    <2> QED
      BY <1>7, <2>1, WriteStream
  <1>9. PICK t : t = [d EXCEPT !.stream = st]
    BY ZenonT(180)
  <1>10. sender' = t
    <2>1. sender' = [drained EXCEPT !.stream =
                        stream_write(@, [i \in 1 .. k |-> sender.stream.bytes_written + i])]
      BY DEF Write, stream
    <2>2. [i \in 1 .. k |-> sender.stream.bytes_written + i] = [i \in 1 .. k |-> wr + i]
      BY <1>6
    <2> QED
      BY <1>4, <1>7, <1>9, <2>1, <2>2, ZenonT(180)
  <1>11. st \in ByteStreamRecord(Nat)
    BY <1>8 DEF StreamIs
  <1>12. /\ SameFlight(d, t) /\ t.stream = st /\ t.segments_out = d.segments_out
         /\ t.consecutive_retrans = d.consecutive_retrans /\ t.rto = d.rto /\ t.age = d.age
    BY <1>5, <1>9, <1>11, ZenonT(180) DEF SenderRecord, SameFlight
  <1>13. PICK w \in Nat : StreamIs(t.stream, rd, w)
    BY <1>8, <1>12
  <1>14. ~d.stream.input_end
    BY <1>6 DEF Write, stream
  <1>15. SendsAt(t, rd, w, lo, next)
    <2>1. t.stream.input_end = d.stream.input_end
      BY <1>8, <1>12
    <2>2. SendsAt(d, rd, wr, lo, next)
      BY <1>1, <1>4
    <2> QED
      BY <1>3, <1>12, <1>13, <1>14, <2>1, <2>2, StreamGrows, ZenonT(180)
  <1>16. t.segments_out = <<>> /\ t.next_seqno = sender.next_seqno
    BY <1>2, <1>4, <1>12 DEF Drained, SameFlight
  <1>17. TimerOk(t)
    BY <1>2, <1>4, <1>12, ZenonT(180) DEF TimerOk, SameFlight
  <1>18. IInv'
    BY <1>10, <1>15, <1>16, <1>17, NothingOut, ZenonT(180) DEF IInv, Sends
  <1> QED
    BY <1>10, <1>16, <1>18, QuietStep

(* The application ends its stream. *)
LEMMA EndInputStep ==
    ASSUME IInv, ClientMay = {}, EndInput
    PROVE  IInv' /\ WindowStep /\ ResendStep
  <1>1. PICK rd, wr, lo, next : SendsAt(drained, rd, wr, lo, next)
    BY DrainedSends
  <1>2. Drained(drained) /\ TimerOk(drained)
    BY DrainedSends
  <1>3. next # 0 /\ next = sender.next_seqno
    <2>1. next = sender.next_seqno /\ next \in Nat
      BY <1>1, <1>2 DEF Drained, SendsAt
    <2> QED
      BY <2>1 DEF EndInput, Connected
  <1>4. PICK d : d = drained
    OBVIOUS
  <1>5. d \in SenderRecord /\ d.window_size > 0 /\ d.window_size < Half /\ StreamIs(d.stream, rd, wr)
    BY <1>1, <1>4 DEF SendsAt
  <1>100. PICK h \in BOOLEAN : h = TRUE
    BY ZenonT(180)
  <1>6. PICK st : st = [d.stream EXCEPT !.input_end = h] /\ h = TRUE
    BY <1>100, ZenonT(180)
  <1>7. StreamIs(st, rd, wr) /\ st.input_end = TRUE
    BY <1>5, <1>6, ZenonT(180) DEF StreamIs, ByteStreamRecord
  <1>8. PICK t : t = [d EXCEPT !.stream = st]
    BY ZenonT(180)
  <1>9. sender' = t
    BY <1>4, <1>6, <1>8 DEF EndInput, end_input
  <1>10. st \in ByteStreamRecord(Nat)
    BY <1>7 DEF StreamIs
  <1>11. /\ SameFlight(d, t) /\ t.stream = st /\ t.segments_out = d.segments_out
         /\ t.consecutive_retrans = d.consecutive_retrans /\ t.rto = d.rto /\ t.age = d.age
    BY <1>5, <1>8, <1>10, ZenonT(180) DEF SenderRecord, SameFlight
  <1>12. SendsAt(t, rd, wr, lo, next)
    <2>1. SendsAt(d, rd, wr, lo, next) /\ StreamIs(t.stream, rd, wr) /\ t.stream.input_end = TRUE
      BY <1>1, <1>4, <1>7, <1>11, ZenonT(180)
    <2> QED
      BY <1>3, <1>11, <2>1, StreamGrows, ZenonT(180)
  <1>13. t.segments_out = <<>> /\ t.next_seqno = sender.next_seqno
    BY <1>2, <1>4, <1>11 DEF Drained, SameFlight
  <1>14. TimerOk(t)
    BY <1>2, <1>4, <1>11, ZenonT(180) DEF TimerOk, SameFlight
  <1>15. IInv'
    BY <1>9, <1>12, <1>13, <1>14, NothingOut DEF IInv, Sends
  <1> QED
    BY <1>9, <1>13, <1>15, QuietStep

(* An acknowledgment arrives. *)
LEMMA AckStep ==
    ASSUME IInv, NEW ack_seqno \in 0 .. sender.next_seqno + 1, NEW win \in Windows,
           AckReceived(ack_seqno, win)
    PROVE  IInv' /\ WindowStep /\ ResendStep
  <1>1. PICK rd, wr, lo, next : SendsAt(drained, rd, wr, lo, next)
    BY DrainedSends
  <1>2. Drained(drained) /\ TimerOk(drained)
    BY DrainedSends
  <1>3. PICK d : d = drained
    OBVIOUS
  <1>4. PICK ackno : ackno = wrap(ack_seqno, Isn) /\ ackno \in WrappingInt32
    <2>1. sender.next_seqno \in Nat
      BY DEF IInv, Sends, SendsAt
    <2>2. ack_seqno \in Nat
      BY <2>1
    <2> QED
      BY <2>2, WrapType
  <1>5. PICK t : t = ack_received(d, ackno, win)
    OBVIOUS
  <1>6. sender' = t
    BY <1>3, <1>4, <1>5 DEF AckReceived
  <1>7. CanAck(d, rd, wr, lo, next, ackno, win)
    BY <1>1, <1>3, <1>4 DEF CanAck
  <1>8. (\E low : SendsAt(t, rd, wr, low, next)) /\ Acked(d, t)
    BY <1>5, <1>7, AckSends
  <1>9. t.segments_out = <<>> /\ t.next_seqno = sender.next_seqno
    BY <1>2, <1>3, <1>8, ZenonT(180) DEF Drained, Acked
  <1>10. TimerOk(t)
    <2>1. CASE /\ t.seg_queue = d.seg_queue /\ t.consecutive_retrans = d.consecutive_retrans
               /\ t.rto = d.rto /\ t.age = d.age
      BY <1>2, <1>3, <2>1, ZenonT(180) DEF TimerOk
    <2>2. CASE t.consecutive_retrans = 0 /\ t.rto = InitialRto /\ t.age = 0
      <3>1. 0 \in 0 .. t.consecutive_retrans /\ t.rto = backoff(0)
        BY <2>2, Backoff
      <3>2. t.age < t.rto
        BY <2>2, Constants
      <3> QED
        BY <2>2, <3>1, <3>2, ZenonT(180) DEF TimerOk
    <2> QED
      BY <1>8, <2>1, <2>2, ZenonT(180) DEF Acked
  <1>11. IInv'
    BY <1>6, <1>8, <1>9, <1>10, NothingOut, ZenonT(180) DEF IInv, Sends
  <1> QED
    BY <1>6, <1>9, <1>11, QuietStep

(* Time passes: the oldest segment is sent again when the timeout has been *)
(* reached, and the timeout doubles unless the window is closed.           *)
LEMMA TickStep ==
    ASSUME IInv, NEW ms \in Ticks, Tick(ms)
    PROVE  IInv' /\ WindowStep /\ ResendStep
  <1>1. PICK rd, wr, lo, next : SendsAt(drained, rd, wr, lo, next)
    BY DrainedSends
  <1>2. Drained(drained) /\ TimerOk(drained)
    BY DrainedSends
  <1>3. PICK d : d = drained
    OBVIOUS
  <1>4. d \in SenderRecord /\ d.window_size > 0 /\ d.window_size < Half
    BY <1>1, <1>3 DEF SendsAt
  <1>5. PICK c \in Nat, r \in Nat, a \in Nat, m \in Nat :
           /\ c = d.consecutive_retrans /\ r = d.rto /\ a = d.age /\ m = ms
    <2>1. d.consecutive_retrans \in Nat /\ d.rto \in Nat /\ d.age \in Nat
      BY <1>4 DEF SenderRecord
    <2>2. ms \in Nat
      BY SenderAssumption
    <2> QED
      BY <2>1, <2>2
  <1>6. PICK k \in 0 .. c : r = backoff(k)
    BY <1>2, <1>3, <1>5 DEF TimerOk
  <1>7. PICK t : t = sender_tick(d, ms)
    OBVIOUS
  <1>8. sender' = t
    BY <1>3, <1>7 DEF Tick
  <1>9. CASE d.seg_queue = <<>>
    <2>1. t = d
      BY <1>7, <1>9 DEF sender_tick
    <2>2. t.segments_out = <<>> /\ t.next_seqno = sender.next_seqno
      BY <1>2, <1>3, <2>1 DEF Drained
    <2>3. IInv'
      BY <1>1, <1>2, <1>3, <1>8, <2>1, <2>2, NothingOut DEF IInv, Sends
    <2> QED
      BY <1>8, <2>2, <2>3, QuietStep
  <1>10. CASE d.seg_queue # <<>> /\ a + m < r
    <2>1. PICK b \in Nat : b = a + m
      OBVIOUS
    <2>2. t = [d EXCEPT !.age = b]
      BY <1>5, <1>7, <1>10, <2>1 DEF sender_tick
    <2>3. /\ SameFlight(d, t) /\ t.stream = d.stream /\ t.segments_out = d.segments_out
          /\ t.consecutive_retrans = c /\ t.rto = r /\ t.age = b
      BY <1>4, <1>5, <2>2, ZenonT(180) DEF SenderRecord, SameFlight
    <2>4. SendsAt(t, rd, wr, lo, next)
      BY <1>1, <1>3, <2>3, SameSends
    <2>5. t.segments_out = <<>> /\ t.next_seqno = sender.next_seqno
      BY <1>2, <1>3, <2>3 DEF Drained, SameFlight
    <2>6. TimerOk(t)
      <3>1. t.age < t.rto /\ t.seg_queue # <<>>
        BY <1>10, <2>1, <2>3 DEF SameFlight
      <3> QED
        BY <1>6, <2>3, <3>1, ZenonT(180) DEF TimerOk
    <2>7. IInv'
      BY <1>8, <2>4, <2>5, <2>6, NothingOut, ZenonT(180) DEF IInv, Sends
    <2> QED
      BY <1>8, <2>5, <2>7, QuietStep
  <1>11. CASE d.seg_queue # <<>> /\ ~(a + m < r)
    <2>1. d.seg_queue \in Seq(SegmentRecord)
      BY <1>4 DEF SenderRecord
    <2>2. PICK front \in SegmentRecord : front = d.seg_queue[1] /\ 1 \in 1 .. Len(d.seg_queue)
      BY <1>11, <2>1
    <2>3. PICK out \in Seq(SegmentRecord) : out = <<front>>
      <3>1. <<front>> \in Seq(SegmentRecord)
        BY <2>2
      <3> QED
        BY <3>1, ZenonT(180)
    <2>4. PICK nr \in Nat, nc \in Nat : nr = (IF d.is_window_zero THEN r ELSE 2 * r) /\ nc = c + 1
      OBVIOUS
    <2>5. t = [d EXCEPT !.age = 0, !.rto = nr, !.consecutive_retrans = nc, !.segments_out = out]
      <3>1. Append(d.segments_out, resent(d.seg_queue)) = out
        <4>1. d.segments_out = <<>>
          BY <1>2, <1>3 DEF Drained
        <4> QED
          BY <2>2, <2>3, <4>1 DEF resent
      <3> QED
        BY <1>5, <1>7, <1>11, <2>4, <3>1 DEF sender_tick
    <2>6. /\ SameFlight(d, t) /\ t.stream = d.stream /\ t.segments_out = out
          /\ t.consecutive_retrans = nc /\ t.rto = nr /\ t.age = 0 /\ t.seg_queue = d.seg_queue
      BY <1>4, <2>5, ZenonT(180) DEF SenderRecord, SameFlight
    <2>7. SendsAt(t, rd, wr, lo, next)
      BY <1>1, <1>3, <2>6, SameSends
    <2>8. OutOk(t)
      <3>1. Len(t.segments_out) = 1 /\ t.segments_out[1] = t.seg_queue[1]
        BY <2>2, <2>3, <2>6
      <3>2. \A i \in 1 .. 1 : i = 1
        OBVIOUS
      <3>3. 1 \in 1 .. Len(t.seg_queue)
        BY <2>2, <2>6, ZenonT(180)
      <3> QED
        BY <3>1, <3>2, <3>3, ZenonT(180) DEF OutOk
    <2>9. TimerOk(t)
      <3>1. backoff(k) \in Nat \ {0} /\ backoff(k + 1) = 2 * backoff(k)
        <4>1. k \in Nat
          OBVIOUS
        <4> QED
          BY <4>1, Backoff, ZenonT(180)
      <3>2. nr > 0 /\ t.age < t.rto
        BY <1>6, <2>4, <2>6, <3>1
      <3>3. \E j \in 0 .. t.consecutive_retrans : t.rto = backoff(j)
        <4>1. k \in 0 .. nc /\ k + 1 \in 0 .. nc
          BY <1>5, <2>4
        <4>2. nr = backoff(k) \/ nr = backoff(k + 1)
          BY <1>6, <2>4, <3>1
        <4> QED
          BY <2>6, <4>1, <4>2
      <3>4. t.seg_queue # <<>>
        BY <1>11, <2>6
      <3> QED
        BY <3>2, <3>3, <3>4, ZenonT(180) DEF TimerOk
    <2>10. IInv'
      BY <1>8, <2>7, <2>8, <2>9 DEF IInv, Sends
    <2>11. WindowStep
      <3>1. t.next_seqno = sender.next_seqno /\ sender.next_seqno \in Nat
        BY <1>2, <1>3, <2>6, ZenonT(180) DEF Drained, SameFlight, IInv, Sends, SendsAt
      <3> QED
        BY <1>8, <3>1 DEF WindowStep
    <2>12. ResendStep
      <3>1. DOMAIN sender'.segments_out = {1} /\ sender'.segments_out[1] = sender.seg_queue[1]
        <4>1. DOMAIN out = {1} /\ out[1] = front
          BY <2>3
        <4>2. front = sender.seg_queue[1]
          BY <1>2, <1>3, <2>2 DEF Drained
        <4> QED
          BY <1>8, <2>6, <4>1, <4>2
      <3>2. sender.age + ms >= sender.rto
        BY <1>2, <1>3, <1>5, <1>11 DEF Drained
      <3> QED
        BY <3>1, <3>2 DEF ResendStep, queue
    <2> QED
      BY <2>10, <2>11, <2>12
  <1> QED
    BY <1>9, <1>10, <1>11

(* An empty segment is sent. *)
LEMMA SendEmptyStep ==
    ASSUME IInv, SendEmptySegment
    PROVE  IInv' /\ WindowStep /\ ResendStep
  <1>1. PICK rd, wr, lo, next : SendsAt(drained, rd, wr, lo, next)
    BY DrainedSends
  <1>2. Drained(drained) /\ TimerOk(drained)
    BY DrainedSends
  <1>3. PICK d : d = drained
    OBVIOUS
  <1>4. d \in SenderRecord /\ d.window_size > 0 /\ d.window_size < Half /\ d.segments_out = <<>>
    BY <1>1, <1>2, <1>3, ZenonT(180) DEF SendsAt, Drained
  <1>5. PICK n \in Int : n = next_seqno(d)
    <2>1. d.isn = Isn /\ d.next_seqno \in Nat
      BY <1>1, <1>3 DEF SendsAt
    <2> QED
      BY <2>1, WrapType DEF next_seqno
  <1>6. PICK seg : seg = [EmptySegment EXCEPT !.seqno = n]
    BY ZenonT(180)
  <1>7. seg \in SegmentRecord /\ Blank(seg)
    <2>1. PICK h \in BOOLEAN : h = FALSE
      BY ZenonT(180)
    <2>2. PICK p \in Seq(Nat) : p = <<>>
      <3>1. <<>> \in Seq(Nat)
        OBVIOUS
      <3> QED
        BY <3>1, ZenonT(180)
    <2>3. seg = [seqno |-> n, ackno |-> 0, ack |-> h, rst |-> h, syn |-> h,
                 fin |-> h, win |-> 0, payload |-> p]
      BY <1>6, <2>1, <2>2, ZenonT(180) DEF EmptySegment
    <2>4. seg \in SegmentRecord
      BY <2>3 DEF SegmentRecord
    <2>5. seg.payload = p /\ seg.syn = h /\ seg.fin = h
      BY <2>3
    <2> QED
      BY <2>1, <2>2, <2>4, <2>5 DEF Blank
  <1>8. PICK out \in Seq(SegmentRecord) : out = <<seg>>
    <2>1. <<seg>> \in Seq(SegmentRecord)
      BY <1>7
    <2> QED
      BY <2>1, ZenonT(180)
  <1>9. PICK t : t = [d EXCEPT !.segments_out = out]
    BY ZenonT(180)
  <1>10. sender' = t
    <2>1. Append(d.segments_out, seg) = out
      BY <1>4, <1>8
    <2> QED
      BY <1>3, <1>5, <1>6, <1>9, <2>1 DEF SendEmptySegment, send_empty_segment
  <1>11. /\ SameFlight(d, t) /\ t.stream = d.stream /\ t.segments_out = out
         /\ t.consecutive_retrans = d.consecutive_retrans /\ t.rto = d.rto /\ t.age = d.age
    BY <1>4, <1>9, ZenonT(180) DEF SenderRecord, SameFlight
  <1>12. SendsAt(t, rd, wr, lo, next)
    BY <1>1, <1>3, <1>11, SameSends
  <1>13. Len(out) = 1 /\ DOMAIN out = {1} /\ out[1] = seg
    BY <1>8
  <1>14. OutOk(t)
    <2>1. \A i \in 1 .. 1 : i = 1
      OBVIOUS
    <2> QED
      BY <1>7, <1>11, <1>13, <2>1 DEF OutOk
  <1>15. TimerOk(t)
    BY <1>2, <1>3, <1>11, ZenonT(180) DEF TimerOk, SameFlight
  <1>16. IInv'
    BY <1>10, <1>12, <1>14, <1>15 DEF IInv, Sends
  <1>17. WindowStep
    <2>1. t.next_seqno = sender.next_seqno /\ sender.next_seqno \in Nat
      BY <1>2, <1>3, <1>11, ZenonT(180) DEF Drained, SameFlight, IInv, Sends, SendsAt
    <2> QED
      BY <1>10, <2>1 DEF WindowStep
  <1>18. ResendStep
    <2>1. length_in_sequence_space(seg) = 0
      <3>1. (IF seg.syn THEN 1 ELSE 0) = 0 /\ (IF seg.fin THEN 1 ELSE 0) = 0 /\ Len(seg.payload) = 0
        BY <1>7 DEF Blank
      <3> QED
        BY <3>1 DEF length_in_sequence_space
    <2>2. DOMAIN sender'.segments_out = {1} /\ sender'.segments_out[1] = seg
      BY <1>10, <1>11, <1>13
    <2>3. ~(0 > 0)
      OBVIOUS
    <2> QED
      BY <2>1, <2>2, <2>3 DEF ResendStep
  <1> QED
    BY <1>16, <1>17, <1>18

(* A segment that is sent for the first time is none of those in the       *)
(* queue, since its number, taken from the 32-bit one, is beyond theirs.   *)
LEMMA NewIsNotQueued ==
    ASSUME NEW s, NEW rd, NEW wr, NEW lo, NEW next, SendsAt(s, rd, wr, lo, next),
           NEW segs, NEW mark, NEW new, Queued(segs, mark, next, new),
           new <= MaxBytes + 2, new - next < Half,
           NEW i \in 1 .. Len(segs), NEW j \in 1 .. Len(s.seg_queue)
    PROVE  segs[i] # s.seg_queue[j]
  <1> SUFFICES ASSUME segs[i] = s.seg_queue[j] PROVE FALSE
    OBVIOUS
  <1>1. PICK qmark : Queued(s.seg_queue, qmark, lo, next)
    BY DEF SendsAt, Flight
  <1>2. PICK n \in Nat : n = Len(segs)
    BY DEF Queued
  <1>3. PICK N \in Nat, M \in Nat, a \in Nat, b \in Nat :
           /\ N = next /\ M = new /\ a = mark[i] /\ b = mark[i + 1] /\ N <= a /\ a < b /\ b <= M
           /\ IsSegment(segs[i], a, b)
    <2>1. next \in Nat /\ new \in Nat /\ mark[1] = next /\ mark[n + 1] = new
      BY <1>2, ZenonT(180) DEF Queued
    <2>2. i \in 1 .. n + 1 /\ i + 1 \in 1 .. n + 1 /\ 1 \in 1 .. n + 1 /\ n + 1 \in 1 .. n + 1
      BY <1>2
    <2>3. /\ mark[i] \in Nat /\ mark[i + 1] \in Nat /\ mark[i] < mark[i + 1]
          /\ IsSegment(segs[i], mark[i], mark[i + 1])
      BY <1>2, <2>2 DEF Queued
    <2>4. \A x, y \in 1 .. n + 1 : x < y => mark[x] < mark[y]
      BY <1>2 DEF Queued
    <2>5. mark[1] <= mark[i]
      BY <2>1, <2>2, <2>3, <2>4
    <2>6. mark[i + 1] <= mark[n + 1]
      BY <2>1, <2>2, <2>3, <2>4
    <2> QED
      BY <2>1, <2>3, <2>5, <2>6, ZenonT(180)
  <1>4. Distance(a, N) < Half /\ a <= MaxBytes + 2 /\ N <= MaxBytes + 2
    <2>1. M - N < Half /\ M <= MaxBytes + 2
      BY <1>3
    <2>2. a - N < Half /\ a - N >= 0 /\ a <= MaxBytes + 2 /\ N <= MaxBytes + 2
      BY <1>3, <2>1, Constants
    <2> QED
      BY <2>2 DEF Distance
  <1>5. s.isn = Isn /\ s.next_seqno = N
    BY <1>3, ZenonT(180) DEF SendsAt
  <1>6. segment_end(s, segs[i]) = b
    BY <1>3, <1>4, <1>5, Decode, ZenonT(180)
  <1>7. segment_end(s, s.seg_queue[j]) <= next
    <2>1. Decoded(s, s.seg_queue[j], qmark[j], qmark[j + 1], lo, next)
      BY <1>1, QueueDecodes, ZenonT(180)
    <2> QED
      BY <2>1, ZenonT(180) DEF Decoded
  <1> QED
    BY <1>3, <1>6, <1>7

(* The window is filled. *)
LEMMA FillWindowStep ==
    ASSUME IInv, FillWindow
    PROVE  IInv' /\ WindowStep /\ ResendStep
  <1>1. PICK rd, wr, lo, next : SendsAt(drained, rd, wr, lo, next)
    BY DrainedSends
  <1>2. Drained(drained) /\ TimerOk(drained)
    BY DrainedSends
  <1>3. PICK d : d = drained
    OBVIOUS
  <1>4. PICK t : t = fill_window(d)
    OBVIOUS
  <1>5. sender' = t
    BY <1>3, <1>4 DEF FillWindow
  <1>6. PICK taken, new : /\ SendsAt(t, taken, wr, lo, new)
                          /\ \/ Idle(d, t) /\ new = next
                             \/ \E segs : Sent(d, t, segs, next, new)
    BY <1>1, <1>3, <1>4, FillWindowSends
  <1>7. CASE Idle(d, t)
    <2>1. t.segments_out = <<>> /\ t.next_seqno = sender.next_seqno
      BY <1>2, <1>3, <1>7 DEF Drained, Idle, SameFlight
    <2>2. TimerOk(t)
      BY <1>2, <1>3, <1>7, ZenonT(180) DEF TimerOk, Idle, SameFlight
    <2>3. IInv'
      BY <1>5, <1>6, <2>1, <2>2, NothingOut, ZenonT(180) DEF IInv, Sends
    <2> QED
      BY <1>5, <2>1, <2>3, QuietStep
  <1>8. ASSUME NEW segs, Sent(d, t, segs, next, new)
        PROVE  IInv' /\ WindowStep /\ ResendStep
    <2>1. PICK mark : Queued(segs, mark, next, new)
      BY <1>8 DEF Sent
    <2>2. PICK q : q = d.seg_queue
      OBVIOUS
    <2>3. q \in Seq(SegmentRecord) /\ segs \in Seq(SegmentRecord)
      BY <1>1, <1>3, <2>1, <2>2 DEF SendsAt, SenderRecord, Queued
    <2>4. PICK a \in Nat, b \in Nat : a = Len(q) /\ b = Len(segs)
      BY <2>3
    <2>5. t.segments_out = segs /\ t.seg_queue = q \o segs
      <3>1. d.segments_out = <<>> /\ t.segments_out = d.segments_out \o segs
        BY <1>2, <1>3, <1>8, ZenonT(180) DEF Drained, Sent
      <3>2. <<>> \o segs = segs
        BY <2>3
      <3> QED
        BY <1>8, <2>2, <3>1, <3>2 DEF Sent
    <2>6. /\ Len(q \o segs) = a + b
          /\ \A i \in 1 .. b : (q \o segs)[a + i] = segs[i] /\ a + i \in 1 .. a + b
      BY <2>3, <2>4
    <2>7. OutOk(t)
      BY <2>4, <2>5, <2>6 DEF OutOk
    <2>8. TimerOk(t)
      <3>1. CASE q = <<>>
        <4>1. t.rto = InitialRto /\ t.age = 0 /\ t.consecutive_retrans = d.consecutive_retrans
          BY <1>8, <2>2, <3>1 DEF Sent
        <4>2. d.consecutive_retrans = 0
          BY <1>2, <1>3, <2>2, <3>1 DEF TimerOk
        <4>3. 0 \in 0 .. t.consecutive_retrans /\ t.rto = backoff(0)
          BY <4>1, <4>2, Backoff
        <4>4. t.age < t.rto
          BY <4>1, Constants
        <4> QED
          BY <4>1, <4>2, <4>3, <4>4, ZenonT(180) DEF TimerOk
      <3>2. CASE q # <<>>
        <4>1. t.rto = d.rto /\ t.age = d.age /\ t.consecutive_retrans = d.consecutive_retrans
          BY <1>8, <2>2, <3>2 DEF Sent
        <4>2. t.seg_queue # <<>>
          <5>1. a # 0
            BY <2>3, <2>4, <3>2
          <5>2. Len(t.seg_queue) # 0
            BY <2>5, <2>6, <5>1
          <5> QED
            BY <5>2
        <4> QED
          BY <1>2, <1>3, <4>1, <4>2, ZenonT(180) DEF TimerOk
      <3> QED
        BY <3>1, <3>2
    <2>9. IInv'
      BY <1>5, <1>6, <2>7, <2>8 DEF IInv, Sends
    <2>10. WindowStep
      BY <1>5, <1>8, ZenonT(180) DEF WindowStep, Sent
    <2>11. ResendStep
      <3>1. new <= MaxBytes + 2
        BY <1>6, AccountBounds
      <3>2. new - next < Half
        <4>1. new \in Nat /\ lo \in Nat /\ new - lo < Half
          BY <1>6 DEF SendsAt
        <4>2. next \in Nat /\ lo <= next
          BY <1>1 DEF SendsAt
        <4> QED
          BY <4>1, <4>2, Constants
      <3>3. SendsAt(d, rd, wr, lo, next)
        BY <1>1, <1>3
      <3>4. \A i \in 1 .. Len(segs) : \A j \in 1 .. Len(d.seg_queue) : segs[i] # d.seg_queue[j]
        BY <2>1, <3>1, <3>2, <3>3, NewIsNotQueued
      <3>5. d.seg_queue = queue
        BY <1>2, <1>3 DEF Drained, queue
      <3>6. DOMAIN queue = 1 .. Len(d.seg_queue) /\ DOMAIN segs = 1 .. Len(segs)
        BY <2>2, <2>3, <3>5
      <3>7. sender'.segments_out = segs
        BY <1>5, <2>5
      <3> QED
        BY <3>4, <3>5, <3>6, <3>7, ZenonT(180) DEF ResendStep
    <2> QED
      BY <2>9, <2>10, <2>11
  <1> QED
    BY <1>6, <1>7, <1>8

(* A new sender is in the invariant. *)
LEMMA InitInvariant ==
    ASSUME Init
    PROVE  IInv
  <1>1. PICK h \in BOOLEAN : h = FALSE
    BY ZenonT(180)
  <1>2. PICK st : st = [buffers |-> <<>>, hollow |-> h, capacity |-> Capacity,
                        bytes_read |-> 0, bytes_written |-> 0, input_end |-> h, error |-> h]
    BY ZenonT(180)
  <1>3. st = NewByteStream(Capacity)
    BY <1>1, <1>2, ZenonT(180) DEF NewByteStream
  <1>4. st \in ByteStreamRecord(Nat)
    BY <1>2, Constants DEF ByteStreamRecord
  <1>5. PICK e \in Seq(SegmentRecord) : e = <<>>
    <2>1. <<>> \in Seq(SegmentRecord)
      OBVIOUS
    <2> QED
      BY <2>1, ZenonT(180)
  <1>6. sender = [isn |-> Isn, stream |-> st, segments_out |-> e,
                  is_syn_received |-> h, is_fin_received |-> h,
                  consecutive_retrans |-> 0, window_size |-> 1, is_window_zero |-> h,
                  bytes_in_flight |-> 0, seg_queue |-> e, next_seqno |-> 0,
                  rto |-> InitialRto, age |-> 0]
    BY <1>1, <1>3, <1>5, ZenonT(180) DEF Init, NewTCPSender
  <1>7. sender \in SenderRecord
    BY <1>4, <1>6, Constants, ZenonT(180) DEF SenderRecord
  <1>8. StreamIs(st, 0, 0)
    <2>1. st.buffers = Run(0, 0)
      BY <1>2, RunEmpty
    <2>2. st.hollow = FALSE
      BY <1>1, <1>2
    <2>3. st.capacity = Capacity /\ st.bytes_read = 0 /\ st.bytes_written = 0 /\ 0 - 0 = 0
      BY <1>2
    <2> QED
      BY <1>4, <2>1, <2>2, <2>3, Constants DEF StreamIs
  <1>9. Flight(e, 0, 0)
    <2> DEFINE mark == [i \in 1 .. 1 |-> 0]
    <2>1. Len(e) = 0 /\ mark[1] = 0
      BY <1>5
    <2>2. Queued(e, mark, 0, 0)
      BY <1>5, <2>1 DEF Queued
    <2> HIDE DEF mark
    <2> QED
      BY <2>1, <2>2 DEF Flight
  <1>10. ~FinSent(sender)
    <2>1. sender.is_fin_received = FALSE /\ sender.seg_queue = e
      BY <1>1, <1>6
    <2>2. DOMAIN e = {}
      BY <1>5
    <2> QED
      BY <2>1, <2>2, ZenonT(180) DEF FinSent
  <1>11. Account(0, 0, 0, sender.stream.input_end, FinSent(sender))
    <2>1. sender.stream.input_end = FALSE
      BY <1>1, <1>2, <1>6
    <2> QED
      BY <1>10, <2>1, ZenonT(180) DEF Account
  <1>12. SendsAt(sender, 0, 0, 0, 0)
    <2>1. /\ sender.isn = Isn /\ sender.next_seqno = 0 /\ sender.bytes_in_flight = 0
          /\ sender.window_size = 1 /\ sender.stream = st /\ sender.seg_queue = e
      BY <1>6
    <2>2. sender.is_syn_received = FALSE /\ sender.is_fin_received = FALSE
      BY <1>1, <1>6
    <2>3. sender.window_size > 0 /\ sender.window_size < Half /\ 0 - 0 < Half /\ 0 - 0 = 0
      BY <2>1, Constants
    <2>4. StreamIs(sender.stream, 0, 0) /\ Flight(sender.seg_queue, 0, 0)
      BY <1>8, <1>9, <2>1
    <2> QED
      BY <1>7, <1>11, <2>1, <2>2, <2>3, <2>4 DEF SendsAt
  <1>13. OutOk(sender)
    <2>1. sender.segments_out = <<>>
      BY <1>5, <1>6
    <2> QED
      BY <2>1, NothingOut
  <1>14. TimerOk(sender)
    <2>1. sender.consecutive_retrans = 0 /\ sender.rto = InitialRto /\ sender.age = 0
      BY <1>6
    <2>2. sender.rto = backoff(0) /\ 0 \in 0 .. sender.consecutive_retrans /\ sender.age < sender.rto
      BY <2>1, Backoff, Constants
    <2> QED
      BY <2>1, <2>2, ZenonT(180) DEF TimerOk
  <1> QED
    BY <1>12, <1>13, <1>14, ZenonT(180) DEF IInv, Sends

(* Every step keeps the invariant and has the properties of steps. *)
LEMMA NextStep ==
    ASSUME IInv, ClientMay = {}, [Next]_vars
    PROVE  IInv' /\ [WindowStep /\ ResendStep]_vars
  <1>1. CASE UNCHANGED vars
    BY <1>1, ZenonT(180) DEF vars, IInv
  <1>2. ASSUME NEW k \in 1 .. MaxBytes, Write(k) PROVE IInv' /\ WindowStep /\ ResendStep
    BY <1>2, WriteStep
  <1>3. CASE EndInput
    BY <1>3, EndInputStep
  <1>4. CASE FillWindow
    BY <1>4, FillWindowStep
  <1>5. ASSUME NEW ack_seqno \in 0 .. sender.next_seqno + 1, NEW win \in Windows,
               AckReceived(ack_seqno, win)
        PROVE  IInv' /\ WindowStep /\ ResendStep
    BY <1>5, AckStep
  <1>6. ASSUME NEW ms \in Ticks, Tick(ms) PROVE IInv' /\ WindowStep /\ ResendStep
    BY <1>6, TickStep
  <1>7. CASE SendEmptySegment
    BY <1>7, SendEmptyStep
  <1> QED
    BY <1>1, <1>2, <1>3, <1>4, <1>5, <1>6, <1>7, ZenonT(180) DEF Next

(* The invariant holds at all times, for an application that writes only   *)
(* after the SYN has been sent.                                            *)
THEOREM InvariantTheorem ==
    ASSUME ClientMay = {}
    PROVE  Spec => []IInv
  <1>1. Init => IInv
    BY InitInvariant
  <1>2. IInv /\ [Next]_vars => IInv'
    BY NextStep
  <1> QED
    BY <1>1, <1>2, PTL DEF Spec

(* The invariant implies QueueIsInFlight. *)
LEMMA InFlight ==
    ASSUME IInv
    PROVE  QueueIsInFlight
  <1>1. PICK rd, wr, lo, next : SendsAt(sender, rd, wr, lo, next)
    BY DEF IInv, Sends
  <1>2. PICK mark : Queued(queue, mark, lo, next)
    BY <1>1, ZenonT(180) DEF SendsAt, Flight, queue
  <1>3. PICK n \in Nat : n = Len(queue)
    BY <1>2 DEF Queued
  <1>4. /\ lo \in Nat /\ next \in Nat /\ mark[1] = lo /\ mark[n + 1] = next
        /\ sender.next_seqno = next /\ sender.bytes_in_flight = next - lo
    BY <1>1, <1>2, <1>3 DEF Queued, SendsAt
  <1>5. ASSUME NEW i \in 1 .. n
        PROVE  /\ segment_end(sender, queue[i]) = mark[i + 1] /\ start(queue[i]) = mark[i]
               /\ IsSegment(queue[i], mark[i], mark[i + 1])
    <2>1. i \in 1 .. Len(sender.seg_queue) /\ Queued(sender.seg_queue, mark, lo, next)
      BY <1>2, <1>3 DEF queue
    <2>2. Decoded(sender, queue[i], mark[i], mark[i + 1], lo, next)
      BY <1>1, <2>1, QueueDecodes, ZenonT(180) DEF queue
    <2> QED
      BY <2>2, ZenonT(180) DEF Decoded, start
  <1>6. ~fill_window_throws(sender)
    <2> SUFFICES ASSUME ~sender.is_syn_received, queue # <<>>, ~queue[1].syn
                 PROVE  FALSE
      BY DEF fill_window_throws, queue
    <2>1. 1 \in 1 .. n
      BY <1>2, <1>3 DEF Queued
    <2>2. lo = 0
      BY <1>1 DEF SendsAt
    <2>3. queue[1].syn <=> mark[1] = 0
      BY <1>5, <2>1 DEF IsSegment
    <2> QED
      BY <1>4, <2>2, <2>3
  <1>7. \A i \in 1 .. n - 1 : segment_end(sender, queue[i]) = start(queue[i + 1])
    <2> TAKE i \in 1 .. n - 1
    <2>1. i \in 1 .. n /\ i + 1 \in 1 .. n
      OBVIOUS
    <2> QED
      BY <1>5, <2>1
  <1>8. queue = <<>> => sender.bytes_in_flight = 0
    <2> HAVE queue = <<>>
    <2>1. n = 0
      BY <1>3
    <2> QED
      BY <1>4, <2>1
  <1>9. queue # <<>> => /\ segment_end(sender, queue[n]) = sender.next_seqno
                        /\ start(queue[1]) + sender.bytes_in_flight = sender.next_seqno
    <2> HAVE queue # <<>>
    <2>1. 1 \in 1 .. n /\ n \in 1 .. n
      BY <1>2, <1>3 DEF Queued
    <2>2. segment_end(sender, queue[n]) = next
      BY <1>4, <1>5, <2>1
    <2>3. start(queue[1]) = lo
      BY <1>4, <1>5, <2>1
    <2>4. lo + (next - lo) = next
      BY <1>4
    <2> QED
      BY <1>4, <2>2, <2>3, <2>4
  <1> QED
    BY <1>3, <1>6, <1>7, <1>8, <1>9 DEF QueueIsInFlight

(* The retransmission queue is exactly what was sent and not acknowledged, *)
(* bytes_in_flight counts it, and fill_window does not throw, whatever     *)
(* acknowledgments reach ack_received and whatever windows they carry; for *)
(* every capacity, initial sequence number, payload size and width of the  *)
(* sequence numbers.                                                       *)
THEOREM QueueTheorem ==
    ASSUME ClientMay = {}
    PROVE  Spec => []QueueIsInFlight
  <1>1. IInv => QueueIsInFlight
    BY InFlight
  <1> QED
    BY <1>1, InvariantTheorem, PTL

(* The body of SegmentsCarryStream, for one segment. *)
Carries(seg) ==
    /\ \A k \in DOMAIN seg.payload : seg.payload[k] = start(seg) + FlagBit(seg.syn) + k - 1
    /\ length_in_sequence_space(seg) > 0 => (seg.syn <=> start(seg) = 0)
    /\ seg.fin => stream.input_end /\ segment_end(sender, seg) = stream.bytes_written + 2

(* Every segment of the queue carries the stream. *)
LEMMA QueueCarries ==
    ASSUME IInv, NEW i \in 1 .. Len(queue)
    PROVE  Carries(queue[i])
  <1>1. PICK rd, wr, lo, next : SendsAt(sender, rd, wr, lo, next)
    BY DEF IInv, Sends
  <1>2. PICK mark : Queued(queue, mark, lo, next)
    BY <1>1 DEF SendsAt, Flight, queue
  <1>3. PICK seg : seg = queue[i]
    OBVIOUS
  <1>4. PICK a \in Nat, b \in Nat : /\ a = mark[i] /\ b = mark[i + 1] /\ IsSegment(seg, a, b)
                                    /\ segment_end(sender, seg) = b /\ start(seg) = a
    <2>1. i \in 1 .. Len(sender.seg_queue) /\ Queued(sender.seg_queue, mark, lo, next)
      BY <1>2 DEF queue
    <2>2. /\ segment_end(sender, queue[i]) = mark[i + 1] /\ start(queue[i]) = mark[i]
          /\ IsSegment(queue[i], mark[i], mark[i + 1]) /\ mark[i] \in Nat /\ mark[i + 1] \in Nat
      <3>1. Decoded(sender, queue[i], mark[i], mark[i + 1], lo, next)
        BY <1>1, <2>1, QueueDecodes, ZenonT(180) DEF queue
      <3> QED
        BY <3>1, ZenonT(180) DEF Decoded, start
    <2> QED
      BY <1>3, <2>2
  <1>5. \A k \in DOMAIN seg.payload : seg.payload[k] = start(seg) + FlagBit(seg.syn) + k - 1
    <2>1. \A k \in 1 .. Len(seg.payload) : seg.payload[k] = a + FlagBit(seg.syn) + k - 1
      BY <1>4, ZenonT(180) DEF IsSegment
    <2>2. DOMAIN seg.payload = 1 .. Len(seg.payload)
      BY <1>4 DEF IsSegment, SegmentRecord
    <2> QED
      BY <1>4, <2>1, <2>2, ZenonT(180)
  <1>6. seg.syn <=> start(seg) = 0
    BY <1>4 DEF IsSegment
  <1>7. ASSUME seg.fin
        PROVE  stream.input_end /\ segment_end(sender, seg) = stream.bytes_written + 2
    <2>1. i = Len(queue)
      BY <1>1, <1>3, <1>7, ZenonT(180) DEF SendsAt, Flight, queue
    <2>2. b = next
      BY <1>2, <1>4, <2>1 DEF Queued
    <2>3. FinSent(sender)
      <3>1. DOMAIN queue = 1 .. Len(queue)
        BY <1>2 DEF Queued
      <3>2. i \in DOMAIN queue /\ queue[i].fin
        BY <1>3, <1>7, <3>1
      <3> QED
        BY <3>2, ZenonT(180) DEF FinSent, queue
    <2>4. Account(next, rd, wr, stream.input_end, FinSent(sender))
      BY <1>1 DEF SendsAt, stream
    <2>5. stream.input_end /\ next = wr + 2
      BY <2>3, <2>4, ZenonT(180) DEF Account
    <2>6. stream.bytes_written = wr
      BY <1>1 DEF SendsAt, StreamIs, stream
    <2> QED
      BY <1>4, <2>2, <2>5, <2>6
  <1>8. Carries(seg)
    BY <1>5, <1>6, <1>7, ZenonT(180) DEF Carries
  <1> QED
    BY <1>3, <1>8

(* So does a blank one. *)
LEMMA BlankCarries ==
    ASSUME NEW seg \in SegmentRecord, Blank(seg)
    PROVE  Carries(seg)
  <1>1. seg.payload = <<>> /\ ~seg.syn /\ ~seg.fin
    BY DEF Blank
  <1>2. DOMAIN seg.payload = {}
    BY <1>1
  <1>3. length_in_sequence_space(seg) = 0
    BY <1>1 DEF length_in_sequence_space
  <1>4. ~(length_in_sequence_space(seg) > 0)
    BY <1>3
  <1> QED
    BY <1>1, <1>2, <1>4, ZenonT(180) DEF Carries

(* The invariant implies SegmentsCarryStream. *)
LEMMA AllCarry ==
    ASSUME IInv
    PROVE  SegmentsCarryStream
  <1>1. queue \in Seq(SegmentRecord) /\ sender.segments_out \in Seq(SegmentRecord)
    BY DEF IInv, Sends, SendsAt, SenderRecord, queue
  <1>2. \A i \in DOMAIN queue : Carries(queue[i])
    <2>1. DOMAIN queue = 1 .. Len(queue)
      BY <1>1
    <2> QED
      BY <2>1, QueueCarries
  <1>3. ASSUME NEW i \in DOMAIN sender.segments_out
        PROVE  Carries(sender.segments_out[i])
    <2>1. i \in 1 .. Len(sender.segments_out) /\ DOMAIN queue = 1 .. Len(queue)
      BY <1>1
    <2>2. \/ Blank(sender.segments_out[i])
          \/ \E j \in 1 .. Len(queue) : sender.segments_out[i] = queue[j]
      BY <2>1, ZenonT(180) DEF IInv, OutOk, queue
    <2>3. sender.segments_out[i] \in SegmentRecord
      BY <1>1, <2>1
    <2> QED
      BY <1>2, <2>1, <2>2, <2>3, BlankCarries, ZenonT(180)
  <1>4. ASSUME NEW i \in DOMAIN queue \cup DOMAIN sender.segments_out,
               NEW seg \in {q[i] : q \in {r \in {queue, sender.segments_out} : i \in DOMAIN r}}
        PROVE  Carries(seg)
    BY <1>2, <1>3, ZenonT(180)
  <1> QED
    BY <1>4, ZenonT(180) DEF SegmentsCarryStream, Carries

(* Every segment sent by fill_window, sent again by tick or kept for it    *)
(* holds the bytes of the stream that belong to its sequence number, after *)
(* any wrapping; SYN is the first number and FIN the last.                 *)
THEOREM CarryTheorem ==
    ASSUME ClientMay = {}
    PROVE  Spec => []SegmentsCarryStream
  <1>1. IInv => SegmentsCarryStream
    BY AllCarry
  <1> QED
    BY <1>1, InvariantTheorem, PTL

(* The invariant implies NothingIsSkipped. *)
LEMMA Accounted ==
    ASSUME IInv
    PROVE  NothingIsSkipped
  <1>1. PICK rd, wr, lo, next : SendsAt(sender, rd, wr, lo, next)
    BY DEF IInv, Sends
  <1>2. PICK fin : fin = FinSent(sender)
    OBVIOUS
  <1>3. Account(next, rd, wr, stream.input_end, fin)
    BY <1>1, <1>2 DEF SendsAt, stream
  <1>4. next \in Nat /\ rd \in Nat /\ wr \in Nat /\ sender.next_seqno = next /\ stream.bytes_read = rd
    BY <1>1 DEF SendsAt, StreamIs, stream
  <1>5. NothingIsSkipped <=> next = IF next = 0 THEN 0 ELSE 1 + rd + FlagBit(fin)
    BY <1>2, <1>4 DEF NothingIsSkipped, FinSent, queue
  <1>6. CASE fin
    <2>1. rd = wr /\ next = wr + 2
      BY <1>3, <1>6, ZenonT(180) DEF Account
    <2>2. FlagBit(fin) = 1
      BY <1>6 DEF FlagBit
    <2> QED
      BY <1>4, <1>5, <2>1, <2>2
  <1>7. CASE ~fin
    <2>1. next # 0 => next = rd + 1
      BY <1>3, <1>7, ZenonT(180) DEF Account
    <2>2. FlagBit(fin) = 0
      BY <1>7 DEF FlagBit
    <2> QED
      BY <1>4, <1>5, <2>1, <2>2
  <1> QED
    BY <1>6, <1>7

(* next_seqno counts the SYN, every byte read from the stream and the FIN, *)
(* each once; fill_window sends nothing after the FIN.                     *)
THEOREM SkipTheorem ==
    ASSUME ClientMay = {}
    PROVE  Spec => []NothingIsSkipped
  <1>1. IInv => NothingIsSkipped
    BY Accounted
  <1> QED
    BY <1>1, InvariantTheorem, PTL

(* fill_window sends something new only if it fits the window that         *)
(* ack_received stored last.                                               *)
THEOREM WindowTheorem ==
    ASSUME ClientMay = {}
    PROVE  Spec => WindowRespected
  <1> DEFINE A == sender'.next_seqno > sender.next_seqno =>
                    sender'.bytes_in_flight <= sender'.window_size
  <1>1. IInv /\ [Next]_vars => [A]_vars
    BY NextStep, ZenonT(180) DEF WindowStep
  <1>2. WindowRespected <=> [][A]_vars
    BY DEF WindowRespected
  <1> HIDE DEF A
  <1> QED
    BY <1>1, <1>2, InvariantTheorem, PTL DEF Spec

(* tick sends only the oldest unacknowledged segment again, never before   *)
(* its timeout, which doubles at most once per retransmission and starts   *)
(* over when ack_received learns of something new; no other call sends     *)
(* anything twice.                                                         *)
THEOREM ResendTheorem ==
    ASSUME ClientMay = {}
    PROVE  Spec => OnlyTimeoutResends
  <1> DEFINE A == /\ BackoffMatchesCount'
                  /\ \A i \in DOMAIN sender'.segments_out :
                        LET seg == sender'.segments_out[i]
                        IN  length_in_sequence_space(seg) > 0 /\ seg \in {queue[j] : j \in DOMAIN queue}
                            => seg = queue[1] /\ \E ms \in Ticks : sender.age + ms >= sender.rto
  <1>1. IInv /\ [Next]_vars => [A]_vars
    <2> SUFFICES ASSUME IInv, [Next]_vars PROVE [A]_vars
      OBVIOUS
    <2>1. IInv' /\ [WindowStep /\ ResendStep]_vars
      BY NextStep
    <2>2. BackoffMatchesCount'
      BY <2>1, ZenonT(180) DEF IInv, TimerOk, BackoffMatchesCount, queue
    <2> QED
      BY <2>1, <2>2, ZenonT(180) DEF ResendStep
  <1>2. OnlyTimeoutResends <=> [][A]_vars
    BY DEF OnlyTimeoutResends
  <1> HIDE DEF A
  <1> QED
    BY <1>1, <1>2, InvariantTheorem, PTL DEF Spec
=============================================================================
