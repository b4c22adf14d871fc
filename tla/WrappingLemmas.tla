--------------------------- MODULE WrappingLemmas ---------------------------
(***************************************************************************)
(* Lemmas about wrap and unwrap (libsponge/wrapping_integers.cc), for      *)
(* words of any width.                                                     *)
(***************************************************************************)
EXTENDS WrappingIntegers, TLAPS

USE SMTT(180)

(* A number is given by its quotient and its remainder ...                 *)
LEMMA DivMod ==
    ASSUME NEW m \in Nat \ {0}, NEW n \in Int
    PROVE  /\ n % m \in 0 .. m - 1
           /\ n \div m \in Int
           /\ n = ((n \div m) * m) + (n % m)
  <1>1. n % m \in 0 .. m - 1
    BY Z3
  <1>2. n \div m \in Int
    BY Z3
  <1>3. n = ((n \div m) * m) + (n % m)
    BY Z3
  <1> QED
    BY <1>1, <1>2, <1>3

(* ... and gives them.                                                     *)
LEMMA DivModUnique ==
    ASSUME NEW m \in Nat \ {0}, NEW n \in Int,
           NEW q \in Int, NEW r \in 0 .. m - 1, n = (q * m) + r
    PROVE  n % m = r /\ n \div m = q
  BY Z3

(* The remainder of a sum: addition on the circle, as in wrap.             *)
LEMMA ModPlus ==
    ASSUME NEW m \in Nat \ {0}, NEW a \in Int, NEW i \in 0 .. m - 1
    PROVE  (i + a) % m = IF i + (a % m) < m THEN i + (a % m) ELSE (i + (a % m)) - m
  <1>1. PICK q \in Int, r \in 0 .. m - 1 : r = a % m /\ a = (q * m) + r
    BY DivMod, ZenonT(180)
  <1>0. r = a % m
    BY <1>1
  <1>2. PICK n \in Int : n = i + a
    BY Z3
  <1>3. CASE i + r < m
    <2>1. PICK t \in 0 .. m - 1 : t = i + r
      BY <1>3, Z3
    <2>2. n = (q * m) + t
      BY <1>1, <1>2, <2>1, Z3
    <2>3. n % m = t
      BY <2>2, DivModUnique, Z3
    <2> QED
      BY <1>0, <1>2, <1>3, <2>1, <2>3, Z3
  <1>4. CASE ~(i + r < m)
    <2>1. PICK t \in 0 .. m - 1 : t = (i + r) - m
      BY <1>4, Z3
    <2>2. PICK p \in Int : p = q + 1
      BY Z3
    <2>3. n = (p * m) + t
      BY <1>1, <1>2, <2>1, <2>2, Z3
    <2>4. n % m = t
      BY <2>3, DivModUnique, Z3
    <2> QED
      BY <1>0, <1>2, <1>4, <2>1, <2>4, Z3
  <1> QED
    BY <1>3, <1>4

(* The remainder of a difference: subtraction on the circle, as `n - isn'   *)
(* in unwrap.                                                              *)
LEMMA ModMinus ==
    ASSUME NEW m \in Nat \ {0}, NEW i \in 0 .. m - 1, NEW s \in 0 .. m - 1
    PROVE  (s - i) % m = IF s >= i THEN s - i ELSE (s - i) + m
  BY Z3

(* What the widths of the two integer types have to do with each other.    *)
LEMMA Widths ==
    /\ Half \in Nat \ {0}
    /\ Modulus \in Nat \ {0}
    /\ Wide \in Nat \ {0}
    /\ Modulus = Half + Half
    /\ Wide = Modulus * Modulus
  <1>1. Modulus \in Nat \ {0} /\ Modulus = Half + Half
    BY HalfAssumption DEF Modulus
  <1>2. \A m \in Nat \ {0} : m * m \in Nat \ {0}
    BY Z3
  <1> QED
    BY <1>1, <1>2, HalfAssumption DEF Wide

(* The sequence numbers that wrap to s are those whose low word is the     *)
(* lower32 of unwrap.                                                      *)
LEMMA SameWrap ==
    ASSUME NEW a \in Int, NEW i \in WrappingInt32, NEW s \in WrappingInt32
    PROVE  wrap(a, i) = s <=> a % Modulus = (s - i) % Modulus
  <1> DEFINE m == Modulus
  <1>1. m \in Nat \ {0} /\ i \in 0 .. m - 1 /\ s \in 0 .. m - 1
    BY Widths DEF WrappingInt32
  <1> HIDE DEF m
  <1>2. a % m \in 0 .. m - 1
    BY <1>1, DivMod
  <1>3. (i + a) % m = IF i + (a % m) < m THEN i + (a % m) ELSE (i + (a % m)) - m
    BY <1>1, ModPlus, ZenonT(180)
  <1>4. (s - i) % m = IF s >= i THEN s - i ELSE (s - i) + m
    BY <1>1, ModMinus, ZenonT(180)
  <1>5. (i + a) % m = s <=> a % m = (s - i) % m
    BY <1>1, <1>2, <1>3, <1>4
  <1> QED
    BY <1>5 DEF wrap, m

(* Multiples of m are m apart.                                             *)
LEMMA Multiples ==
    ASSUME NEW m \in Nat \ {0}, NEW k \in Int, NEW q \in Int
    PROVE  /\ k * m \in Int
           /\ (k >= q => k * m >= q * m)
           /\ (k > q => k * m >= (q * m) + m)
           /\ (k - 1) * m = (k * m) - m
           /\ (k + 1) * m = (k * m) + m
  BY Z3

(* The high words unwrap tries are the checkpoint's own and the one of the *)
(* half-circle next to it; at the ends of the 64-bit range the latter      *)
(* wraps round, and is then only a worse candidate.                        *)
LEMMA Candidates ==
    ASSUME NEW c \in AbsoluteSeqno, NEW q \in 0 .. Modulus - 1, NEW r \in 0 .. Modulus - 1,
           c = (q * Modulus) + r
    PROVE  /\ upper32_1(c) = IF r >= Half THEN q ELSE IF q = 0 THEN Modulus - 1 ELSE q - 1
           /\ upper32_2(c) = IF r < Half THEN q ELSE IF q = Modulus - 1 THEN 0 ELSE q + 1
  <1> DEFINE m == Modulus
             w == Wide
  <1>1. /\ m \in Nat \ {0} /\ w \in Nat \ {0} /\ Half \in Nat \ {0} /\ m = Half + Half
        /\ w = m * m /\ q \in 0 .. m - 1 /\ r \in 0 .. m - 1 /\ c = (q * m) + r /\ c \in 0 .. w - 1
    BY Widths DEF AbsoluteSeqno
  <1> HIDE DEF m, w
  <1>0. m \in Nat \ {0} /\ w \in Nat \ {0}
    BY <1>1
  <1>2. ASSUME NEW h \in 0 .. m - 1, NEW t \in 0 .. m - 1, NEW n \in Int, NEW z \in Int,
               n = (z * w) + ((h * m) + t)
        PROVE  (n % w) \div m = h
    <2>1. (h * m) + t \in 0 .. w - 1
      <3>1. h * m \in Int /\ h * m >= 0 /\ h * m <= (m * m) - m
        BY <1>1, Z3
      <3> QED
        BY <1>1, <3>1
    <2>2. PICK x \in 0 .. w - 1 : x = (h * m) + t
      BY <2>1
    <2>3. n = (z * w) + x
      BY <1>2, <2>2
    <2>4. n % w = x
      BY <1>0, <2>3, DivModUnique, Z3
    <2>5. x \in Int /\ x = (h * m) + t
      BY <1>1, <2>2
    <2>6. x \div m = h
      BY <1>0, <2>5, DivModUnique, Z3
    <2> QED
      BY <2>4, <2>6
  <1>3. /\ 0 * w = 0 /\ 1 * w = w /\ (-1) * w = -w
        /\ (q - 1) * m = (q * m) - m /\ (q + 1) * m = (q * m) + m
        /\ (m - 1) * m = w - m /\ 0 * m = 0 /\ q * m \in Int
    BY <1>1, Z3
  <1>4. ((c - Half) % w) \div m = IF r >= Half THEN q ELSE IF q = 0 THEN m - 1 ELSE q - 1
    <2>1. PICK n \in Int : n = c - Half
      BY <1>1
    <2>2. CASE r >= Half
      <3>1. PICK t \in 0 .. m - 1 : t = r - Half
        BY <1>1, <2>2
      <3>2. n = (0 * w) + ((q * m) + t)
        BY <1>1, <1>3, <2>1, <3>1
      <3> QED
        BY <1>1, <1>2, <2>1, <2>2, <3>2
    <2>3. CASE r < Half /\ q = 0
      <3>1. PICK t \in 0 .. m - 1, h \in 0 .. m - 1, z \in Int : t = r + Half /\ h = m - 1 /\ z = -1
        BY <1>1, <2>3
      <3>2. h * m = w - m /\ z * w = -w
        BY <1>3, <3>1
      <3>3. n = (z * w) + ((h * m) + t)
        BY <1>1, <1>3, <2>1, <2>3, <3>1, <3>2
      <3>4. (n % w) \div m = h
        BY <1>2, <3>3
      <3> QED
        BY <1>1, <2>1, <2>3, <3>1, <3>4
    <2>4. CASE r < Half /\ q # 0
      <3>1. PICK t \in 0 .. m - 1, h \in 0 .. m - 1 : t = r + Half /\ h = q - 1
        BY <1>1, <2>4
      <3>2. h * m = (q * m) - m
        BY <1>3, <3>1
      <3>3. n = (0 * w) + ((h * m) + t)
        BY <1>1, <1>3, <2>1, <3>1, <3>2
      <3>4. (n % w) \div m = h
        BY <1>2, <3>3
      <3> QED
        BY <1>1, <2>1, <2>4, <3>1, <3>4
    <2> QED
      BY <1>1, <2>2, <2>3, <2>4
  <1>5. ((c + Half) % w) \div m = IF r < Half THEN q ELSE IF q = m - 1 THEN 0 ELSE q + 1
    <2>1. PICK n \in Int : n = c + Half
      BY <1>1
    <2>2. CASE r < Half
      <3>1. PICK t \in 0 .. m - 1 : t = r + Half
        BY <1>1, <2>2
      <3>2. n = (0 * w) + ((q * m) + t)
        BY <1>1, <1>3, <2>1, <3>1
      <3> QED
        BY <1>1, <1>2, <2>1, <2>2, <3>2
    <2>3. CASE r >= Half /\ q = m - 1
      <3>1. PICK t \in 0 .. m - 1, h \in 0 .. m - 1, z \in Int : t = r - Half /\ h = 0 /\ z = 1
        BY <1>1, <2>3
      <3>2. h * m = 0 /\ z * w = w /\ q * m = w - m
        BY <1>3, <2>3, <3>1
      <3>3. n = (z * w) + ((h * m) + t)
        BY <1>1, <2>1, <3>1, <3>2
      <3>4. (n % w) \div m = h
        BY <1>2, <3>3
      <3> QED
        BY <1>1, <2>1, <2>3, <3>1, <3>4
    <2>4. CASE r >= Half /\ q # m - 1
      <3>1. PICK t \in 0 .. m - 1, h \in 0 .. m - 1 : t = r - Half /\ h = q + 1
        BY <1>1, <2>4
      <3>2. h * m = (q * m) + m
        BY <1>3, <3>1
      <3>3. n = (0 * w) + ((h * m) + t)
        BY <1>1, <1>3, <2>1, <3>1, <3>2
      <3>4. (n % w) \div m = h
        BY <1>2, <3>3
      <3> QED
        BY <1>1, <2>1, <2>4, <3>1, <3>4
    <2> QED
      BY <1>1, <2>2, <2>3, <2>4
  <1> QED
    BY <1>4, <1>5 DEF upper32_1, upper32_2, m, w

(* Whatever sequence number with low word l one picks, one of the two      *)
(* candidates is at least as close to the checkpoint.                      *)
LEMMA OneIsClosest ==
    ASSUME NEW c \in AbsoluteSeqno, NEW q \in 0 .. Modulus - 1, NEW r \in 0 .. Modulus - 1,
           c = (q * Modulus) + r,
           NEW k \in 0 .. Modulus - 1, NEW l \in 0 .. Modulus - 1
    PROVE  LET n == (k * Modulus) + l
           IN  \/ Distance((upper32_1(c) * Modulus) + l, c) <= Distance(n, c)
               \/ Distance((upper32_2(c) * Modulus) + l, c) <= Distance(n, c)
  <1> DEFINE m == Modulus
             u1 == upper32_1(c)
             u2 == upper32_2(c)
  <1>1. m \in Nat \ {0} /\ Half \in Nat \ {0} /\ m = Half + Half
    BY Widths
  <1>2. u1 = IF r >= Half THEN q ELSE IF q = 0 THEN m - 1 ELSE q - 1
    BY Candidates
  <1>3. u2 = IF r < Half THEN q ELSE IF q = m - 1 THEN 0 ELSE q + 1
    BY Candidates
  <1>4. /\ q \in 0 .. m - 1 /\ r \in 0 .. m - 1 /\ k \in 0 .. m - 1 /\ l \in 0 .. m - 1
        /\ c = (q * m) + r
    OBVIOUS
  <1> HIDE DEF m, u1, u2
  <1>5. /\ k * m \in Int /\ q * m \in Int
        /\ (q - 1) * m = (q * m) - m /\ (q + 1) * m = (q * m) + m
        /\ (k >= q => k * m >= q * m) /\ (k <= q => k * m <= q * m)
        /\ (k > q => k * m >= (q * m) + m) /\ (k < q => k * m <= (q * m) - m)
    <2>1. k \in Int /\ q \in Int
      BY <1>4
    <2> QED
      BY <1>1, <2>1, Z3
  <1>6. CASE r < Half /\ k >= q
    <2>1. u2 * m = q * m
      BY <1>3, <1>6
    <2> QED
      BY <1>1, <1>4, <1>5, <1>6, <2>1 DEF Distance, m, u2
  <1>7. CASE r < Half /\ k < q
    <2>1. u1 * m = (q * m) - m
      BY <1>1, <1>2, <1>4, <1>5, <1>7
    <2> QED
      BY <1>1, <1>4, <1>5, <1>7, <2>1 DEF Distance, m, u1
  <1>8. CASE r >= Half /\ k <= q
    <2>1. u1 * m = q * m
      BY <1>2, <1>8
    <2> QED
      BY <1>1, <1>4, <1>5, <1>8, <2>1 DEF Distance, m, u1
  <1>9. CASE r >= Half /\ k > q
    <2>1. u2 * m = (q * m) + m
      BY <1>1, <1>3, <1>4, <1>5, <1>9
    <2> QED
      BY <1>1, <1>4, <1>5, <1>9, <2>1 DEF Distance, m, u2
  <1> QED
    BY <1>1, <1>4, <1>6, <1>7, <1>8, <1>9

(* A high and a low word make a 64-bit number, and every one is made so.   *)
LEMMA Words ==
    /\ \A h, l \in 0 .. Modulus - 1 :
          (h * Modulus) + l \in AbsoluteSeqno /\ ((h * Modulus) + l) % Modulus = l
    /\ \A n \in AbsoluteSeqno : \E h \in 0 .. Modulus - 1 : n = (h * Modulus) + (n % Modulus)
  <1> DEFINE m == Modulus
  <1>1. m \in Nat \ {0} /\ AbsoluteSeqno = 0 .. (m * m) - 1
    BY Widths DEF AbsoluteSeqno
  <1> HIDE DEF m
  <1>0. m \in Nat \ {0}
    BY <1>1
  <1>2. ASSUME NEW h \in 0 .. m - 1, NEW l \in 0 .. m - 1
        PROVE  (h * m) + l \in AbsoluteSeqno /\ ((h * m) + l) % m = l
    <2>1. h * m \in Int /\ h * m >= 0 /\ h * m <= (m * m) - m /\ m * m \in Int
      BY <1>0, Z3
    <2>2. PICK n \in Int : n = (h * m) + l
      BY <1>0, <2>1
    <2>3. n % m = l
      BY <1>0, <2>2, DivModUnique, Z3
    <2> QED
      BY <1>1, <2>1, <2>2, <2>3
  <1>3. ASSUME NEW n \in AbsoluteSeqno
        PROVE  \E h \in 0 .. m - 1 : n = (h * m) + (n % m)
    <2>1. m * m \in Int
      BY <1>0, Z3
    <2>2. n \in Int /\ n >= 0 /\ n < m * m
      BY <1>1, <2>1
    <2>3. PICK h \in Int, r \in 0 .. m - 1 : r = n % m /\ n = (h * m) + r
      BY <1>0, <2>2, DivMod, ZenonT(180)
    <2>4. h \in 0 .. m - 1
      <3>1. h >= 0
        BY <1>0, <2>2, <2>3, Z3
      <3>2. h < m
        BY <1>0, <2>2, <2>3, Z3
      <3> QED
        BY <1>0, <3>1, <3>2
    <2> QED
      BY <2>3, <2>4
  <1> QED
    BY <1>2, <1>3 DEF m

(* What unwrap computes, for every header and every checkpoint.            *)
LEMMA UnwrapNearest ==
    ASSUME NEW s \in WrappingInt32, NEW i \in WrappingInt32, NEW c \in AbsoluteSeqno
    PROVE  /\ unwrap(s, i, c) \in AbsoluteSeqno
           /\ wrap(unwrap(s, i, c), i) = s
           /\ \A n \in AbsoluteSeqno :
                 wrap(n, i) = s => Distance(unwrap(s, i, c), c) <= Distance(n, c)
  <1> DEFINE l == (s - i) % Modulus
             result1 == (upper32_1(c) * Modulus) + l
             result2 == (upper32_2(c) * Modulus) + l
             d == unwrap(s, i, c)
  <1>1. /\ Modulus \in Nat \ {0} /\ Half \in Nat \ {0} /\ Modulus = Half + Half
        /\ s \in 0 .. Modulus - 1 /\ i \in 0 .. Modulus - 1
    BY Widths DEF WrappingInt32
  <1>2. l \in 0 .. Modulus - 1
    BY <1>1, DivMod
  <1>3. PICK q \in 0 .. Modulus - 1, r \in 0 .. Modulus - 1 : c = (q * Modulus) + r
    <2>1. PICK h \in 0 .. Modulus - 1 : c = (h * Modulus) + (c % Modulus)
      BY Words
    <2>2. c \in Int
      BY <1>1, Widths DEF AbsoluteSeqno
    <2>3. c % Modulus \in 0 .. Modulus - 1
      BY <1>1, <2>2, DivMod
    <2> QED
      BY <2>1, <2>3
  <1>4. upper32_1(c) \in 0 .. Modulus - 1 /\ upper32_2(c) \in 0 .. Modulus - 1
    <2>1. upper32_1(c) = IF r >= Half THEN q ELSE IF q = 0 THEN Modulus - 1 ELSE q - 1
      BY <1>3, Candidates
    <2>2. upper32_2(c) = IF r < Half THEN q ELSE IF q = Modulus - 1 THEN 0 ELSE q + 1
      BY <1>3, Candidates
    <2> QED
      BY <1>1, <1>3, <2>1, <2>2
  <1>5. /\ result1 \in AbsoluteSeqno /\ result1 % Modulus = l
        /\ result2 \in AbsoluteSeqno /\ result2 % Modulus = l
    BY <1>2, <1>4, Words
  <1>6. d = IF Distance(result1, c) < Distance(result2, c) THEN result1 ELSE result2
    BY DEF unwrap
  <1>7. AbsoluteSeqno \subseteq Int
    BY Widths DEF AbsoluteSeqno
  <1>8. d \in AbsoluteSeqno /\ d % Modulus = l
    BY <1>5, <1>6
  <1>9. wrap(d, i) = s
    BY <1>7, <1>8, SameWrap, ZenonT(180)
  <1>10. ASSUME NEW n \in AbsoluteSeqno, wrap(n, i) = s
         PROVE  Distance(d, c) <= Distance(n, c)
    <2>1. n % Modulus = l
      BY <1>7, <1>10, SameWrap
    <2>2. PICK k \in 0 .. Modulus - 1 : n = (k * Modulus) + l
      BY <2>1, Words
    <2>3. Distance(result1, c) <= Distance(n, c) \/ Distance(result2, c) <= Distance(n, c)
      BY <1>2, <1>3, <2>2, OneIsClosest
    <2>4. \A a \in AbsoluteSeqno : Distance(a, c) \in Int
      BY <1>7 DEF Distance
    <2> HIDE DEF result1, result2, d
    <2> QED
      BY <1>5, <1>6, <2>3, <2>4
  <1> QED
    BY <1>8, <1>9, <1>10

(* A sequence number less than half the circle away from the checkpoint    *)
(* survives wrap and unwrap.                                               *)
LEMMA UnwrapWrap ==
    ASSUME NEW i \in WrappingInt32, NEW c \in AbsoluteSeqno,
           NEW n \in AbsoluteSeqno, Distance(n, c) < Half
    PROVE  unwrap(wrap(n, i), i, c) = n
  <1> DEFINE s == wrap(n, i)
             d == unwrap(s, i, c)
  <1>1. /\ Modulus \in Nat \ {0} /\ Half \in Nat \ {0} /\ Modulus = Half + Half
        /\ AbsoluteSeqno \subseteq Int
    BY Widths DEF AbsoluteSeqno
  <1>2. i \in WrappingInt32 /\ c \in AbsoluteSeqno /\ i \in Int
    BY <1>1 DEF WrappingInt32
  <1>3. s \in WrappingInt32
    <2>1. i + n \in Int
      BY <1>1, <1>2
    <2>2. (i + n) % Modulus \in 0 .. Modulus - 1
      BY <1>1, <2>1, DivMod, ZenonT(180)
    <2> QED
      BY <2>2 DEF WrappingInt32, wrap
  <1> HIDE DEF s, d
  <1>4. d \in AbsoluteSeqno /\ wrap(d, i) = s /\ Distance(d, c) <= Distance(n, c)
    BY <1>2, <1>3, UnwrapNearest, ZenonT(180) DEF s, d
  <1>5. d % Modulus = n % Modulus
    <2>1. d \in Int /\ n \in Int /\ wrap(n, i) = s
      BY <1>1, <1>4 DEF s
    <2>2. d % Modulus = (s - i) % Modulus
      BY <1>2, <1>3, <1>4, <2>1, SameWrap
    <2>3. n % Modulus = (s - i) % Modulus
      BY <1>2, <1>3, <2>1, SameWrap
    <2> QED
      BY <2>2, <2>3
  <1>6. d - n < Modulus /\ n - d < Modulus
    BY <1>1, <1>2, <1>4 DEF Distance
  <1>7. PICK a \in Int, b \in Int, r \in 0 .. Modulus - 1 :
           d = (a * Modulus) + r /\ n = (b * Modulus) + r
    <2>1. d \in Int /\ n \in Int
      BY <1>1, <1>4
    <2>2. /\ d % Modulus \in 0 .. Modulus - 1 /\ d \div Modulus \in Int
          /\ d = ((d \div Modulus) * Modulus) + (d % Modulus)
      BY <1>1, <2>1, DivMod, ZenonT(180)
    <2>3. /\ n \div Modulus \in Int
          /\ n = ((n \div Modulus) * Modulus) + (n % Modulus)
      BY <1>1, <2>1, DivMod, ZenonT(180)
    <2> QED
      BY <1>5, <2>2, <2>3
  <1>8. /\ a * Modulus \in Int /\ b * Modulus \in Int
        /\ (a > b => a * Modulus >= (b * Modulus) + Modulus)
        /\ (b > a => b * Modulus >= (a * Modulus) + Modulus)
    <2>1. a * Modulus \in Int /\ (a > b => a * Modulus >= (b * Modulus) + Modulus)
      BY <1>1, Multiples
    <2>2. b * Modulus \in Int /\ (b > a => b * Modulus >= (a * Modulus) + Modulus)
      BY <1>1, Multiples
    <2> QED
      BY <2>1, <2>2
  <1>9. a = b
    BY <1>1, <1>6, <1>7, <1>8
  <1> QED
    BY <1>7, <1>9 DEF s, d
=============================================================================
